---------------------------- MODULE Spec2Model ----------------------------
(***************************************************************************)
(* A model of the EngEmil STM32 USB DFU bootloader: the boot controller    *)
(* (main.c, bootloader.c), the DFU request handlers and the deferred       *)
(* flash worker (usb_dfu.c), the flash programmer (flash_ops.c) and the    *)
(* CRC32 engine (crc32.c).                                                 *)
(*                                                                         *)
(* Two contexts run: the main thread (main -> bootloader_run ->            *)
(* usb_dfu_process) and the USB callbacks, which run at interrupt priority *)
(* and may therefore run between any two steps of the main thread.  A USB  *)
(* callback is one atomic action; the main thread is a sequence of steps   *)
(* (pc), one per access group to the shared DFU context.                   *)
(***************************************************************************)
EXTENDS Integers, Sequences, FiniteSets, TLC

(***************************************************************************)
(* Compile-time constants (config.h, usb_dfu.h, crc32.c)                   *)
(***************************************************************************)
\* 0x08000000
FLASH_BASE_ADDRESS == 134217728
FLASH_TOTAL_SIZE == 128 * 1024
FLASH_PAGE_SIZE == 2048
\* 0x08004000
APP_BASE == 134234112
APP_MAX_SIZE == 112 * 1024
FLASH_END == FLASH_BASE_ADDRESS + FLASH_TOTAL_SIZE
\* 0xDEADBEEF (a 32-bit word: high half 0xDEAD, low half 0xBEEF)
BOOTLOADER_MAGIC == << 57005, 48879 >>
\* 0xDEADBEEF
APP_HEADER_MAGIC == << 57005, 48879 >>
\* 0x100
APP_VECTOR_TABLE_OFFSET == 256
BOOTLOADER_TIMEOUT_MS == 60000
\* 0x0483
USB_DEFAULT_VID == 1155
\* 0xDF11
USB_DEFAULT_PID == 57105
DFU_XFER_SIZE == 1024
\* 0x21
DFUSE_CMD_SET_ADDRESS == 33
\* 0x41
DFUSE_CMD_ERASE == 65
\* 0xEDB88320
CRC32_POLYNOMIAL == << 60856, 33568 >>
\* 0xFFFFFFFF, the all-ones 32-bit word
WORD_MAX == << 65535, 65535 >>
\* 0xFFFF, the block_num sentinel of a DFUSe command
CMD_SENTINEL == 65535

\* dfu_state_t
DFU_STATE_DFU_IDLE == 2
DFU_STATE_DFU_DNLOAD_SYNC == 3
DFU_STATE_DFU_DNBUSY == 4
DFU_STATE_DFU_DNLOAD_IDLE == 5
DFU_STATE_DFU_MANIFEST_SYNC == 6
DFU_STATE_DFU_MANIFEST == 7
DFU_STATE_DFU_ERROR == 10

\* dfu_status_t
DFU_STATUS_OK == 0
DFU_STATUS_ERR_WRITE == 3
DFU_STATUS_ERR_ERASE == 4
DFU_STATUS_ERR_PROG == 6
DFU_STATUS_ERR_ADDRESS == 8
DFU_STATUS_ERR_STALLEDPKT == 15

\* dfu_request_t
DFU_REQ_DETACH == 0
DFU_REQ_DNLOAD == 1
DFU_REQ_UPLOAD == 2
DFU_REQ_GETSTATUS == 3
DFU_REQ_CLRSTATUS == 4
DFU_REQ_GETSTATE == 5
DFU_REQ_ABORT == 6

(***************************************************************************)
(* Bounds of the model (not program constants)                             *)
(***************************************************************************)
\* data blocks (wValue # 0, wLength > 0) the host sends in one run
MaxData == 1
\* callbacks that interrupt the main thread while it is not asleep
MaxPreempt == 2
\* milliseconds of one tick of the model's clock
TickMs == 20000
\* data blocks the host sends in a run made of data blocks
MaxBlocks == 2

(***************************************************************************)
(* 32-bit words.  A uint32_t that may exceed 2^31 - 1 (a data word, a CRC, *)
(* the operands of the region check) is the pair << high half, low half >> *)
(* of its 16-bit halves; addresses held in the DFU context and lengths are *)
(* plain integers (they stay below 2^31).  The loops over a word compare   *)
(* it with << >> (never equal) on entry, which has the accumulator         *)
(* computed at each iteration rather than all at once at the end.          *)
(***************************************************************************)
\* bit k (a power of two) of a ^ b
XorBit(a, b, k) == ((((a \div k) % 2) + ((b \div k) % 2)) % 2) * k

\* a ^ b on uint8_t and on uint16_t
Xor8(a, b) ==
    XorBit(a, b, 1) + XorBit(a, b, 2) + XorBit(a, b, 4) + XorBit(a, b, 8)
        + XorBit(a, b, 16) + XorBit(a, b, 32) + XorBit(a, b, 64) + XorBit(a, b, 128)
Xor16(a, b) == 256 * Xor8(a \div 256, b \div 256) + Xor8(a % 256, b % 256)

WordOfInt(n) == << n \div 65536, n % 65536 >>
IntOfWord(w) == w[1] * 65536 + w[2]

\* a ^ b on uint32_t
Xor32(a, b) == << Xor16(a[1], b[1]), Xor16(a[2], b[2]) >>

\* a >> 1 and a >> 8 on uint32_t
Shr1(a) == << a[1] \div 2, (a[1] % 2) * 32768 + a[2] \div 2 >>
Shr8(a) == << a[1] \div 256, (a[1] % 256) * 256 + a[2] \div 256 >>

\* a + b on uint32_t (wraps at 2^32)
Add32(a, b) ==
    LET lo == a[2] + b[2]
        hi == a[1] + b[1] + lo \div 65536
    IN << hi % 65536, lo % 65536 >>

\* a < b, a <= b on uint32_t
Lt32(a, b) == a[1] < b[1] \/ (a[1] = b[1] /\ a[2] < b[2])
Le32(a, b) == ~Lt32(b, a)

\* byte k (0 = least significant) of a 32-bit word
ByteOf(w, k) ==
    CASE k = 0 -> w[2] % 256
      [] k = 1 -> w[2] \div 256
      [] k = 2 -> w[1] % 256
      [] k = 3 -> w[1] \div 256

\* (b0 << 0) | (b1 << 8) | (b2 << 16) | (b3 << 24)
Word32(b0, b1, b2, b3) == << b2 + 256 * b3, b0 + 256 * b1 >>

\* the four bytes of a word as they lie in memory (little-endian)
LE32(w) == << ByteOf(w, 0), ByteOf(w, 1), ByteOf(w, 2), ByteOf(w, 3) >>
LE16(h) == << h % 256, (h \div 256) % 256 >>

(***************************************************************************)
(* CRC32 engine (crc32.c)                                                  *)
(***************************************************************************)
RECURSIVE crc32_table_entry(_, _)
crc32_table_entry(crc, j) ==
    IF crc = << >> \/ j = 0 THEN crc
    ELSE crc32_table_entry(IF crc[2] % 2 = 1
                              THEN Xor32(Shr1(crc), CRC32_POLYNOMIAL)
                              ELSE Shr1(crc),
                           j - 1)

\* crc32_init_table: the 256-entry table; the table_initialized guard makes
\* a second call return without touching it
crc32_table == [i \in 0..255 |-> crc32_table_entry(WordOfInt(i), 8)]

crc32_init == WORD_MAX

RECURSIVE crc32_update_from(_, _, _)
crc32_update_from(crc, data, i) ==
    IF crc = << >> \/ i > Len(data) THEN crc
    ELSE crc32_update_from(
            Xor32(Shr8(crc), crc32_table[Xor8(crc[2] % 256, data[i])]),
            data, i + 1)

\* crc32_update(crc, data, len) with len = Len(data)
crc32_update(crc, data) ==
    IF Len(data) = 0 THEN crc ELSE crc32_update_from(crc, data, 1)

\* a finalisation that leaves out the final XOR
finalize_without_xor(crc) == crc

crc32_finalize(crc) == Xor32(crc, WORD_MAX)

crc32_calculate(data) == crc32_finalize(crc32_update(crc32_init, data))

(***************************************************************************)
(* Flash memory.  A flash image is a function from the addresses that hold *)
(* a byte other than 0xFF to that byte; every other address reads 0xFF     *)
(* (erased).                                                               *)
(***************************************************************************)
ReadByte(f, a) == IF a \in DOMAIN f THEN f[a] ELSE 255

\* the bytes mem[addr .. addr+len-1]
ReadBytes(f, addr, len) == [i \in 1..len |-> ReadByte(f, addr + i - 1)]

\* *(volatile uint32_t *)addr
ReadWord(f, addr) ==
    Word32(ReadByte(f, addr), ReadByte(f, addr + 1),
           ReadByte(f, addr + 2), ReadByte(f, addr + 3))

\* the image f with the bytes of seq stored from addr on
StoreBytes(f, addr, seq) ==
    LET touched == {addr + i - 1 : i \in 1..Len(seq)}
        val(a) == IF a \in touched THEN seq[a - addr + 1] ELSE f[a]
        dom == {a \in (DOMAIN f) \cup touched : val(a) # 255}
    IN [a \in dom |-> val(a)]

\* an image holding seq at addr and 0xFF elsewhere
ImageOf(addr, seq) == StoreBytes(<< >>, addr, seq)

\* flash_is_app_region(addr, len) on 32-bit words; addr + len is a
\* uint32_t sum
flash_is_app_region(addr, len) ==
    IF Lt32(addr, WordOfInt(APP_BASE)) \/ Le32(WordOfInt(FLASH_END), addr) THEN FALSE
    ELSE IF Lt32(WordOfInt(FLASH_END), Add32(addr, len)) THEN FALSE
    ELSE IF Lt32(addr, WordOfInt(APP_BASE)) THEN FALSE
    ELSE TRUE

\* flash_erase_pages: the pages the loop visits
ErasePages(addr, len) ==
    LET start_page == (addr - FLASH_BASE_ADDRESS) \div FLASH_PAGE_SIZE
        num_pages == (len + FLASH_PAGE_SIZE - 1) \div FLASH_PAGE_SIZE
    IN [start |-> start_page, num |-> num_pages]

\* an erase loop that starts one page after the page of addr
erase_skips_first_page(f, addr, len, done) ==
    LET pg == ErasePages(addr, len)
        erased(a) == /\ a >= FLASH_BASE_ADDRESS
                     /\ (a - FLASH_BASE_ADDRESS) \div FLASH_PAGE_SIZE > pg.start
                     /\ (a - FLASH_BASE_ADDRESS) \div FLASH_PAGE_SIZE < pg.start + done
    IN [a \in {x \in DOMAIN f : ~erased(x)} |-> f[a]]

\* flash_erase_pages(addr, len) whose loop ends after `done` pages: done =
\* num_pages is ERR_SUCCESS, less is a wait-ready failure at page `done`
flash_erase_pages(f, addr, len, done) ==
    LET pg == ErasePages(addr, len)
        erased(a) == /\ a >= FLASH_BASE_ADDRESS
                     /\ (a - FLASH_BASE_ADDRESS) \div FLASH_PAGE_SIZE >= pg.start
                     /\ (a - FLASH_BASE_ADDRESS) \div FLASH_PAGE_SIZE < pg.start + done
    IN [a \in {x \in DOMAIN f : ~erased(x)} |-> f[a]]

\* a first word whose missing bytes are 0x00 instead of 0xFF
word1_zero_padded(data, i, len) ==
    IF i + 4 <= len
    THEN Word32(data[i + 1], data[i + 2], data[i + 3], data[i + 4])
    ELSE LET b(j) == IF j < len - i /\ j < 4 THEN data[i + j + 1] ELSE 0
         IN Word32(b(0), b(1), b(2), b(3))

\* flash_write: word1 of the double-word at offset i (0-based) of data
flash_write_word1(data, i, len) ==
    IF i + 4 <= len
    THEN Word32(data[i + 1], data[i + 2], data[i + 3], data[i + 4])
    ELSE LET b(j) == IF j < len - i /\ j < 4 THEN data[i + j + 1] ELSE 255
         IN Word32(b(0), b(1), b(2), b(3))

\* flash_write: word2 of the double-word at offset i of data
flash_write_word2(data, i, len) ==
    IF i + 8 <= len
    THEN Word32(data[i + 5], data[i + 6], data[i + 7], data[i + 8])
    ELSE IF i + 4 < len
    THEN LET b(j) == IF j < len - i - 4 THEN data[i + 4 + j + 1] ELSE 255
         IN Word32(b(0), b(1), b(2), b(3))
    ELSE WORD_MAX

\* the 8 bytes of double-word k of flash_write(addr, data, len): word1, word2
DoubleWordBytes(data, k, len) ==
    LE32(flash_write_word1(data, 8 * k, len)) \o LE32(flash_write_word2(data, 8 * k, len))

\* flash_write_doubleword(addr, word1, word2) can return ERR_SUCCESS: the
\* double-word is aligned and erased (or the value is all zeros), so that
\* flash_wait_ready sees no PROGERR and the read-back equals what was written
flash_write_doubleword(f, addr, bytes) ==
    /\ addr % 8 = 0
    /\ \/ \A i \in 0..7 : ReadByte(f, addr + i) = 255
       \/ \A i \in 1..8 : bytes[i] = 0

\* number of double-words flash_write(addr, data, len) programs
DoubleWords(len) == (len + 7) \div 8

\* the double-words at which flash_write(addr, data, len) must fail
flash_write_blocked(f, addr, data, len) ==
    {k \in 0..(DoubleWords(len) - 1) :
        ~flash_write_doubleword(f, addr + 8 * k, DoubleWordBytes(data, k, len))}

\* flash after flash_write(addr, data, len) has programmed the first `done`
\* double-words: done = DoubleWords(len) is ERR_SUCCESS, less is a failure
\* of double-word `done`, which is left as it was
flash_write(f, addr, data, len, done) ==
    StoreBytes(f, addr,
               [i \in 1..(8 * done) |->
                   DoubleWordBytes(data, (i - 1) \div 8, len)[((i - 1) % 8) + 1]])

(***************************************************************************)
(* Application header and header validator (bootloader.h, bootloader.c)    *)
(***************************************************************************)
\* app_header_t at APP_BASE: packed, little-endian
header_magic(f) == ReadWord(f, APP_BASE)
header_version(f) == ReadWord(f, APP_BASE + 4)
header_size(f) == ReadWord(f, APP_BASE + 8)
header_crc32(f) == ReadWord(f, APP_BASE + 12)
header_usb_vid(f) == ReadByte(f, APP_BASE + 16) + 256 * ReadByte(f, APP_BASE + 17)
header_usb_pid(f) == ReadByte(f, APP_BASE + 18) + 256 * ReadByte(f, APP_BASE + 19)

\* a validator that checks the magic number only
validate_magic_only(f) == header_magic(f) = APP_HEADER_MAGIC

\* a validator that takes the CRC from the end of the header on (the old
\* layout) instead of from the vector table on
validate_old_layout(f) ==
    IF header_magic(f) # APP_HEADER_MAGIC THEN FALSE
    ELSE IF header_size(f) = WordOfInt(0)
            \/ Lt32(WordOfInt(APP_MAX_SIZE), header_size(f)) THEN FALSE
    ELSE crc32_calculate(ReadBytes(f, APP_BASE + 32, IntOfWord(header_size(f))))
            = header_crc32(f)

bootloader_validate_app(f) ==
    IF header_magic(f) # APP_HEADER_MAGIC THEN FALSE
    ELSE IF header_size(f) = WordOfInt(0)
            \/ Lt32(WordOfInt(APP_MAX_SIZE), header_size(f)) THEN FALSE
    ELSE IF crc32_calculate(ReadBytes(f, APP_BASE + APP_VECTOR_TABLE_OFFSET,
                                      IntOfWord(header_size(f)))) # header_crc32(f)
    THEN FALSE
    ELSE TRUE


(***************************************************************************)
(* Inputs of the model: flash images at power-on and host transfers        *)
(***************************************************************************)
\* 0x08002000, an address inside the bootloader's own region
BOOT_REGION_ADDR == FLASH_BASE_ADDRESS + 4 * FLASH_PAGE_SIZE
\* USB identifiers carried by the application headers of the model
ImageVid == USB_DEFAULT_VID + 1
ImagePid == USB_DEFAULT_PID + 1

\* DFUSe command payloads: [0x21][A0][A1][A2][A3], [0x41][A0][A1][A2][A3]
SetAddressPayload(a) == << DFUSE_CMD_SET_ADDRESS >> \o LE32(WordOfInt(a))
ErasePayload(a) == << DFUSE_CMD_ERASE >> \o LE32(WordOfInt(a))

\* the 32 bytes of an app_header_t
HeaderBytes(magic, version, size, crc, vid, pid, reserved) ==
    LE32(magic) \o LE32(WordOfInt(version)) \o LE32(WordOfInt(size)) \o LE32(crc)
        \o LE16(vid) \o LE16(pid) \o [i \in 1..12 |-> reserved]

\* a flash image: a header at APP_BASE, a body at the vector table
AppImage(header, body) ==
    StoreBytes(ImageOf(APP_BASE, header), APP_BASE + APP_VECTOR_TABLE_OFFSET, body)

\* the application in flash before the update, and the one the host sends;
\* the CRC values are those of the bodies (zlib.crc32)
OldBody == << 9, 9, 9, 9 >>
\* 0xFB83A8F4
OldCrc == << 64387, 43252 >>
OldHeader == HeaderBytes(APP_HEADER_MAGIC, 1, Len(OldBody), OldCrc, ImageVid, ImagePid, 0)
NewBody == << 1, 2, 3, 4, 5, 6, 7, 8 >>
\* 0x3FCA88C5
NewCrc == << 16330, 35013 >>
NewHeader == HeaderBytes(APP_HEADER_MAGIC, 2, Len(NewBody), NewCrc, ImageVid, ImagePid, 0)
\* the new application as one transfer: header, erased gap, body
NewImageBlock ==
    NewHeader \o [i \in 1..(APP_VECTOR_TABLE_OFFSET - Len(NewHeader)) |-> 255] \o NewBody

ErasedImage == ImageOf(APP_BASE, << >>)
OldImage == AppImage(OldHeader, OldBody)
\* the old application with one body byte changed: its CRC no longer matches
BadCrcImage == AppImage(OldHeader, << 8, 9, 9, 9 >>)
\* the old application with one bit of the magic changed
BadMagicImage ==
    AppImage(HeaderBytes(<< 57005, 48878 >>, 1, Len(OldBody), OldCrc,
                         ImageVid, ImagePid, 0), OldBody)
\* a header of size 0 carrying the CRC of the empty sequence
ZeroSizeImage ==
    AppImage(HeaderBytes(APP_HEADER_MAGIC, 1, 0, WordOfInt(0), ImageVid, ImagePid, 0),
             OldBody)
\* a header of size APP_MAX_SIZE + 1
HugeSizeImage ==
    AppImage(HeaderBytes(APP_HEADER_MAGIC, 1, APP_MAX_SIZE + 1, OldCrc,
                         ImageVid, ImagePid, 0), OldBody)
\* the old application with another version, VID, PID and reserved bytes,
\* with data in the gap between header and body and data after the body
DecoratedImage ==
    StoreBytes(
        StoreBytes(AppImage(HeaderBytes(APP_HEADER_MAGIC, 7, Len(OldBody), OldCrc,
                                        USB_DEFAULT_VID, 2, 90), OldBody),
                   APP_BASE + Len(OldHeader), << 1, 2, 3 >>),
        APP_BASE + APP_VECTOR_TABLE_OFFSET + Len(OldBody), << 5 >>)

InitImages ==
    {ErasedImage, OldImage, BadCrcImage, BadMagicImage, ZeroSizeImage,
     HugeSizeImage, DecoratedImage}

\* a payload whose first byte is no DFUSe command
UnknownCommand == << 146 >> \o NewBody

\* payloads the host sends with wValue = 0
CommandPayloads ==
    {SetAddressPayload(FLASH_END - 8), SetAddressPayload(BOOT_REGION_ADDR),
     ErasePayload(APP_BASE), UnknownCommand,
     ErasePayload(APP_BASE + FLASH_PAGE_SIZE), ErasePayload(BOOT_REGION_ADDR),
     SubSeq(SetAddressPayload(APP_BASE), 1, 4), ErasePayload(APP_BASE) \o << 0 >>,
     SetAddressPayload(FLASH_END - 4)}

\* payloads the host sends with wValue # 0
DataPayloads == {NewBody}

\* wValue of the data blocks the host sends
DataBlockNums == {2, 3, 65535}

\* wLength of a DNLOAD that asks for more than the transfer buffer holds, and
\* the wValue it comes with
OversizeLengths == {DFU_XFER_SIZE + 1}
OversizeBlockNums == {0, 2}

\* wValue of the zero-length DNLOAD that ends a download
ZeroLengthBlockNums == {0, 5}

\* the commands of a host whose requests interrupt the worker
IsrCommandPayloads ==
    {SetAddressPayload(FLASH_END - 8), ErasePayload(APP_BASE), UnknownCommand}

\* the commands and the data block of a host that downloads the new image
BootCommandPayloads == {SetAddressPayload(APP_BASE), ErasePayload(APP_BASE)}
BootDataPayloads == {NewImageBlock}

\* the commands of a host whose requests are spread over time
TimedCommandPayloads ==
    {SetAddressPayload(APP_BASE + 8), ErasePayload(APP_BASE), UnknownCommand}
TimedBlockNums == {2}

\* the data blocks of a host that sends its image in several blocks: a whole
\* double-word and a partial one
BlockPayloads == {NewBody, << 7, 7, 7 >>}
\* the commands of that host: the timed ones and a Set Address to the last
\* word of the application region
BlockCommandPayloads ==
    TimedCommandPayloads \cup {SetAddressPayload(FLASH_END - 4)}

\* the RAM word at power-on
BootMagics == {WordOfInt(0), BOOTLOADER_MAGIC}

(***************************************************************************)
(* State                                                                   *)
(***************************************************************************)
VARIABLES
    pc,               \* position of the main thread
    site,             \* call site of bootloader_run in main: 0 none, 1 or 2
    ram_magic,        \* the RAM word at BOOTLOADER_MAGIC_ADDR
    button,           \* level of LINE_USER_BUTTON: "LOW" or "HIGH"
    flash,            \* flash memory (image)
    flash_locked,     \* FLASH->CR & FLASH_CR_LOCK
    dfu_ctx,          \* the DFU context of usb_dfu.c
    vid_pid,          \* vcom_device_descriptor_data[8..11]
    usb_on,           \* usbStart has run: USB callbacks may fire
    timeout_elapsed,  \* chVTTimeElapsedSinceX(timeout_start), in ticks, saturated
    timeout_enabled,  \* bootloader.c timeout_enabled
    wl,               \* locals of the running usb_dfu_process call
    ep0,              \* the last USB callback: its setup packet, what it did to
                      \* endpoint 0, the wValue of the last accepted transfer
                      \* and whether a GETSTATUS has followed that transfer
    exit_cause,       \* history: why bootloader_run last returned
    accepted,         \* history: bytes of the data blocks written this session
    flash_err,        \* history: a flash operation failed this session
    ndata,            \* history: data blocks the host has sent
    npreempt,         \* history: callbacks that have interrupted the main thread
    unit              \* a direct call of a function of flash_ops.c or crc32.c:
                      \* its arguments, its progress and its return value

vars == << pc, site, ram_magic, button, flash, flash_locked, dfu_ctx, vid_pid,
           usb_on, timeout_enabled, timeout_elapsed, wl, ep0, exit_cause, accepted,
           flash_err, ndata, npreempt, unit >>

\* TIME_MS2I(BOOTLOADER_TIMEOUT_MS) in ticks of the model's clock; the macro
\* rounds up
TimeoutTicks == (BOOTLOADER_TIMEOUT_MS + TickMs - 1) \div TickMs

\* static storage before usb_dfu_init: zero-initialised
ZeroCtx ==
    [state |-> 0, status |-> 0, current_address |-> 0, target_address |-> 0,
     block_num |-> 0, buffer |-> << >>, buffer_len |-> 0,
     download_complete |-> FALSE, erase_done |-> FALSE, poll_timeout |-> 0]

NoLocals == [write_addr |-> 0, err |-> 0]
NoEp0 ==
    [req |-> "none", wValue |-> 0, wLength |-> 0, pending |-> -1,
     polled |-> FALSE, handled |-> FALSE, stall |-> FALSE, dir |-> "none",
     len |-> 0, data |-> << >>]
DefaultVidPid == LE16(USB_DEFAULT_VID) \o LE16(USB_DEFAULT_PID)

\* NVIC_SystemReset(): RAM content and flash survive, the rest restarts
AtReset ==
    /\ pc' = "reset"
    /\ site' = 0
    /\ flash_locked' = TRUE
    /\ dfu_ctx' = ZeroCtx
    /\ vid_pid' = DefaultVidPid
    /\ usb_on' = FALSE
    /\ timeout_elapsed' = 0
    /\ timeout_enabled' = FALSE
    /\ wl' = NoLocals
    /\ ep0' = NoEp0
    /\ accepted' = << >>
    /\ flash_err' = FALSE

\* power-on with one of the given RAM words and flash images
PowerOn(magics, images) ==
    /\ pc = "boot"
    /\ site = 0
    /\ ram_magic \in magics
    /\ button = "HIGH"
    /\ flash \in images
    /\ flash_locked = TRUE
    /\ dfu_ctx = ZeroCtx
    /\ vid_pid = DefaultVidPid
    /\ usb_on = FALSE
    /\ timeout_elapsed = 0
    /\ timeout_enabled = FALSE
    /\ wl = NoLocals
    /\ ep0 = NoEp0
    /\ exit_cause = "none"
    /\ accepted = << >>
    /\ flash_err = FALSE
    /\ ndata = 0
    /\ npreempt = 0
    /\ unit = << >>

\* an application has requested an update of the image it runs from
Init == PowerOn({BOOTLOADER_MAGIC}, {OldImage})

\* any power-on
InitBoot == PowerOn(BootMagics, InitImages)

(***************************************************************************)
(* Boot controller (bootloader.c, main.c)                                  *)
(***************************************************************************)
\* an entry check that does not read the button
should_enter_no_button(magic, f, btn) ==
    IF magic = BOOTLOADER_MAGIC THEN [enter |-> TRUE, magic |-> WordOfInt(0)]
    ELSE IF ~bootloader_validate_app(f) THEN [enter |-> TRUE, magic |-> magic]
    ELSE [enter |-> FALSE, magic |-> magic]

\* an entry check that leaves the magic word in RAM
should_enter_keeps_magic(magic, f, btn) ==
    IF magic = BOOTLOADER_MAGIC THEN [enter |-> TRUE, magic |-> magic]
    ELSE IF ~bootloader_validate_app(f) THEN [enter |-> TRUE, magic |-> magic]
    ELSE IF btn = "LOW" THEN [enter |-> TRUE, magic |-> magic]
    ELSE [enter |-> FALSE, magic |-> magic]

\* bootloader_should_enter(): the verdict and the magic word it leaves
bootloader_should_enter(magic, f, btn) ==
    IF magic = BOOTLOADER_MAGIC THEN [enter |-> TRUE, magic |-> WordOfInt(0)]
    ELSE IF ~bootloader_validate_app(f) THEN [enter |-> TRUE, magic |-> magic]
    ELSE IF btn = "LOW" THEN [enter |-> TRUE, magic |-> magic]
    ELSE [enter |-> FALSE, magic |-> magic]

\* get_usb_vid_pid()
get_usb_vid_pid(f) ==
    IF header_magic(f) = APP_HEADER_MAGIC
    THEN [vid |-> header_usb_vid(f), pid |-> header_usb_pid(f)]
    ELSE [vid |-> USB_DEFAULT_VID, pid |-> USB_DEFAULT_PID]

\* usb_dfu_init(): the DFU context it leaves
InitCtx ==
    [state |-> DFU_STATE_DFU_IDLE, status |-> DFU_STATUS_OK,
     current_address |-> APP_BASE, target_address |-> APP_BASE,
     block_num |-> 0, buffer |-> dfu_ctx.buffer, buffer_len |-> 0,
     download_complete |-> FALSE, erase_done |-> FALSE, poll_timeout |-> 0]

usb_dfu_init ==
    /\ dfu_ctx' = InitCtx
    /\ vid_pid' = LE16(get_usb_vid_pid(flash).vid) \o LE16(get_usb_vid_pid(flash).pid)
    /\ usb_on' = TRUE
    /\ accepted' = << >>
    /\ flash_err' = FALSE

bootloader_timeout_init ==
    /\ timeout_elapsed' = 0
    /\ timeout_enabled' = TRUE

\* an expiry check with its guard inverted
timeout_expired_when_disabled ==
    IF timeout_enabled THEN FALSE
    ELSE timeout_elapsed >= TimeoutTicks

\* bootloader_timeout_expired()
bootloader_timeout_expired ==
    IF ~timeout_enabled THEN FALSE
    ELSE timeout_elapsed >= TimeoutTicks

\* bootloader_jump_to_app(): TRUE when control passes to the application,
\* FALSE when the function returns
bootloader_jump_to_app(f) == bootloader_validate_app(f)

\* main(), from reset to the entry of the DFU loop or the jump; the button
\* line is at level btn when it is read
main(btn) ==
    /\ pc = "boot"
    /\ LET r == bootloader_should_enter(ram_magic, flash, btn)
       IN /\ ram_magic' = r.magic
          /\ button' = btn
          /\ IF r.enter
             THEN /\ usb_dfu_init
                  /\ bootloader_timeout_init
                  /\ pc' = "loop"
                  /\ site' = 1
             ELSE IF bootloader_validate_app(flash) /\ bootloader_jump_to_app(flash)
             THEN /\ pc' = "app"
                  /\ UNCHANGED << dfu_ctx, vid_pid, usb_on, accepted, flash_err,
                                  timeout_elapsed, timeout_enabled, site >>
             ELSE /\ usb_dfu_init
                  /\ bootloader_timeout_init
                  /\ pc' = "loop"
                  /\ site' = 2
    /\ UNCHANGED << flash, flash_locked, wl, ep0, exit_cause, ndata, npreempt,
                    unit >>

\* the guard of usb_dfu_process (line 526)
Busy == dfu_ctx.state = DFU_STATE_DFU_DNBUSY /\ dfu_ctx.buffer_len > 0

\* a return to main() that always ends in the sleep loop, without a reset
return_to_sleep_loop(cause) ==
    /\ exit_cause' = cause
    /\ pc' = "halt"
    /\ UNCHANGED << site, flash_locked, dfu_ctx, vid_pid, usb_on, timeout_elapsed,
                    timeout_enabled, wl, ep0, accepted, flash_err >>

\* bootloader_run() returns to main(): NVIC_SystemReset() after the first
\* call site, the endless sleep loop after the second
ReturnToMain(cause) ==
    /\ exit_cause' = cause
    /\ IF site = 1
       THEN AtReset
       ELSE /\ pc' = "halt"
            /\ UNCHANGED << site, flash_locked, dfu_ctx, vid_pid, usb_on,
                            timeout_elapsed, timeout_enabled, wl, ep0, accepted,
                            flash_err >>

\* a loop that gives up at the first expiry of the timeout, whatever the image
run_leaves_on_any_timeout ==
    /\ pc = "tail" \/ (pc = "loop" /\ ~Busy)
    /\ IF dfu_ctx.download_complete
       THEN ReturnToMain("download")
       ELSE IF bootloader_timeout_expired
       THEN ReturnToMain("timeout")
       ELSE /\ pc' = "loop"
            /\ UNCHANGED << site, flash_locked, dfu_ctx, vid_pid, usb_on,
                            timeout_elapsed, timeout_enabled, wl, ep0, exit_cause,
                            accepted, flash_err >>
    /\ UNCHANGED << ram_magic, unit, button, flash, ndata, npreempt >>

\* bootloader_run(): one iteration of the loop in which usb_dfu_process()
\* returns at its guard, or the rest of an iteration after usb_dfu_process()
\* has done its work
bootloader_run ==
    /\ pc = "tail" \/ (pc = "loop" /\ ~Busy)
    /\ IF dfu_ctx.download_complete
       THEN ReturnToMain("download")
       ELSE IF bootloader_timeout_expired
       THEN IF bootloader_validate_app(flash)
            THEN ReturnToMain("timeout")
            ELSE /\ pc' = "loop"
                 /\ timeout_elapsed' = 0
                 /\ UNCHANGED << site, flash_locked, dfu_ctx, vid_pid, usb_on,
                                 timeout_enabled, wl, ep0, exit_cause, accepted,
                                 flash_err >>
       ELSE /\ pc' = "loop"
            /\ UNCHANGED << site, flash_locked, dfu_ctx, vid_pid, usb_on,
                            timeout_elapsed, timeout_enabled, wl, ep0, exit_cause,
                            accepted, flash_err >>
    /\ UNCHANGED << ram_magic, unit, button, flash, ndata, npreempt >>

\* the reset vector: startup code, then main() is entered
reset_vector ==
    /\ pc = "reset"
    /\ pc' = "boot"
    /\ UNCHANGED << site, ram_magic, unit, button, flash, flash_locked, dfu_ctx, vid_pid,
                    usb_on, timeout_elapsed, timeout_enabled, wl, ep0, exit_cause,
                    accepted, flash_err, ndata, npreempt >>

\* the system tick advances while the loop sleeps
Tick ==
    /\ pc = "loop"
    /\ timeout_elapsed < TimeoutTicks
    /\ timeout_elapsed' = timeout_elapsed + 1
    /\ UNCHANGED << pc, site, ram_magic, unit, button, flash, flash_locked, dfu_ctx,
                    vid_pid, usb_on, timeout_enabled, wl, ep0, exit_cause, accepted,
                    flash_err, ndata, npreempt >>


(***************************************************************************)
(* DFU request handlers (usb_dfu.c), run in USB callback context.  Each    *)
(* handler maps the DFU context to the context it leaves and to what it    *)
(* does to endpoint 0.                                                     *)
(***************************************************************************)
\* a callback runs while the main thread sleeps in the loop of
\* bootloader_run, or interrupts it where it is
Interrupt ==
    IF pc = "loop"
    THEN UNCHANGED npreempt
    ELSE /\ npreempt < MaxPreempt
         /\ npreempt' = npreempt + 1

\* usbStallReceiveI(usbp, 0); return true
Ep0Stall == [handled |-> TRUE, stall |-> TRUE, dir |-> "none", len |-> 0, data |-> << >>]
\* usbSetupTransfer(usbp, NULL, 0, NULL); return true
Ep0Ack == [handled |-> TRUE, stall |-> FALSE, dir |-> "none", len |-> 0, data |-> << >>]
\* usbSetupTransfer(usbp, dfu_ctx.buffer, n, NULL): a data phase into the buffer
Ep0Receive(n) == [handled |-> TRUE, stall |-> FALSE, dir |-> "out", len |-> n, data |-> << >>]
\* usbSetupTransfer(usbp, response, n, NULL): a data phase to the host
Ep0Send(bytes) ==
    [handled |-> TRUE, stall |-> FALSE, dir |-> "in", len |-> Len(bytes), data |-> bytes]
\* the request hook returns false
Ep0Unhandled == [handled |-> FALSE, stall |-> FALSE, dir |-> "none", len |-> 0, data |-> << >>]

\* a DNLOAD handler that looks at wLength == 0 before it looks at the state
dnload_completes_in_any_state(c, wValue, wLength, data) ==
    IF wLength = 0
    THEN [ctx |-> [c EXCEPT !.state = DFU_STATE_DFU_MANIFEST_SYNC,
                            !.download_complete = TRUE],
          ep0 |-> Ep0Ack]
    ELSE IF (c.state # DFU_STATE_DFU_IDLE /\ c.state # DFU_STATE_DFU_DNLOAD_IDLE)
            \/ wLength > DFU_XFER_SIZE
    THEN [ctx |-> [c EXCEPT !.status = DFU_STATUS_ERR_STALLEDPKT,
                            !.state = DFU_STATE_DFU_ERROR],
          ep0 |-> Ep0Stall]
    ELSE [ctx |-> [c EXCEPT !.block_num = IF wValue = 0 THEN CMD_SENTINEL ELSE wValue,
                            !.buffer_len = wLength,
                            !.state = DFU_STATE_DFU_DNLOAD_SYNC,
                            !.buffer = data],
          ep0 |-> Ep0Receive(wLength)]

\* a DNLOAD handler that takes a zero-length DNLOAD as the end of the download
\* only when its wValue is 0
dnload_completes_for_block_zero(c, wValue, wLength, data) ==
    IF c.state # DFU_STATE_DFU_IDLE /\ c.state # DFU_STATE_DFU_DNLOAD_IDLE
    THEN [ctx |-> [c EXCEPT !.status = DFU_STATUS_ERR_STALLEDPKT,
                            !.state = DFU_STATE_DFU_ERROR],
          ep0 |-> Ep0Stall]
    ELSE IF wLength = 0 /\ wValue = 0
    THEN [ctx |-> [c EXCEPT !.state = DFU_STATE_DFU_MANIFEST_SYNC,
                            !.download_complete = TRUE],
          ep0 |-> Ep0Ack]
    ELSE IF wLength = 0 \/ wLength > DFU_XFER_SIZE
    THEN [ctx |-> [c EXCEPT !.status = DFU_STATUS_ERR_STALLEDPKT,
                            !.state = DFU_STATE_DFU_ERROR],
          ep0 |-> Ep0Stall]
    ELSE [ctx |-> [c EXCEPT !.block_num = IF wValue = 0 THEN CMD_SENTINEL ELSE wValue,
                            !.buffer_len = wLength,
                            !.state = DFU_STATE_DFU_DNLOAD_SYNC,
                            !.buffer = data],
          ep0 |-> Ep0Receive(wLength)]

\* a DNLOAD handler without the test of the transfer size
dnload_without_size_check(c, wValue, wLength, data) ==
    IF c.state # DFU_STATE_DFU_IDLE /\ c.state # DFU_STATE_DFU_DNLOAD_IDLE
    THEN [ctx |-> [c EXCEPT !.status = DFU_STATUS_ERR_STALLEDPKT,
                            !.state = DFU_STATE_DFU_ERROR],
          ep0 |-> Ep0Stall]
    ELSE IF wLength = 0
    THEN [ctx |-> [c EXCEPT !.state = DFU_STATE_DFU_MANIFEST_SYNC,
                            !.download_complete = TRUE],
          ep0 |-> Ep0Ack]
    ELSE [ctx |-> [c EXCEPT !.block_num = IF wValue = 0 THEN CMD_SENTINEL ELSE wValue,
                            !.buffer_len = wLength,
                            !.state = DFU_STATE_DFU_DNLOAD_SYNC,
                            !.buffer = data],
          ep0 |-> Ep0Receive(wLength)]

\* dfu_dnload_handler(usbp, wValue, wLength); data is what the armed data
\* phase then stores in dfu_ctx.buffer
dfu_dnload_handler(c, wValue, wLength, data) ==
    IF c.state # DFU_STATE_DFU_IDLE /\ c.state # DFU_STATE_DFU_DNLOAD_IDLE
    THEN [ctx |-> [c EXCEPT !.status = DFU_STATUS_ERR_STALLEDPKT,
                            !.state = DFU_STATE_DFU_ERROR],
          ep0 |-> Ep0Stall]
    ELSE IF wLength = 0
    THEN [ctx |-> [c EXCEPT !.state = DFU_STATE_DFU_MANIFEST_SYNC,
                            !.download_complete = TRUE],
          ep0 |-> Ep0Ack]
    ELSE IF wLength > DFU_XFER_SIZE
    THEN [ctx |-> [c EXCEPT !.status = DFU_STATUS_ERR_STALLEDPKT,
                            !.state = DFU_STATE_DFU_ERROR],
          ep0 |-> Ep0Stall]
    ELSE IF wValue = 0
    THEN [ctx |-> [c EXCEPT !.block_num = CMD_SENTINEL,
                            !.buffer_len = wLength,
                            !.state = DFU_STATE_DFU_DNLOAD_SYNC,
                            !.buffer = data],
          ep0 |-> Ep0Receive(wLength)]
    ELSE [ctx |-> [c EXCEPT !.block_num = wValue,
                            !.buffer_len = wLength,
                            !.state = DFU_STATE_DFU_DNLOAD_SYNC,
                            !.buffer = data],
          ep0 |-> Ep0Receive(wLength)]

\* a GETSTATUS transition that leaves DNBUSY whatever buffer_len is
getstatus_ignores_buffer(c) ==
    IF c.state = DFU_STATE_DFU_DNLOAD_SYNC
    THEN [c EXCEPT !.poll_timeout = IF c.block_num = CMD_SENTINEL THEN 2000 ELSE 10,
                   !.state = DFU_STATE_DFU_DNBUSY]
    ELSE IF c.state = DFU_STATE_DFU_DNBUSY
    THEN IF c.status = DFU_STATUS_OK
         THEN [c EXCEPT !.state = DFU_STATE_DFU_DNLOAD_IDLE]
         ELSE [c EXCEPT !.state = DFU_STATE_DFU_ERROR]
    ELSE IF c.state = DFU_STATE_DFU_MANIFEST_SYNC
    THEN [c EXCEPT !.state = DFU_STATE_DFU_MANIFEST, !.poll_timeout = 0]
    ELSE c

\* a GETSTATUS transition that enters MANIFEST with the poll timeout it finds
getstatus_keeps_poll_timeout(c) ==
    IF c.state = DFU_STATE_DFU_DNLOAD_SYNC
    THEN [c EXCEPT !.poll_timeout = IF c.block_num = CMD_SENTINEL THEN 2000 ELSE 10,
                   !.state = DFU_STATE_DFU_DNBUSY]
    ELSE IF c.state = DFU_STATE_DFU_DNBUSY
    THEN IF c.buffer_len = 0
         THEN IF c.status = DFU_STATUS_OK
              THEN [c EXCEPT !.state = DFU_STATE_DFU_DNLOAD_IDLE]
              ELSE [c EXCEPT !.state = DFU_STATE_DFU_ERROR]
         ELSE c
    ELSE IF c.state = DFU_STATE_DFU_MANIFEST_SYNC
    THEN [c EXCEPT !.state = DFU_STATE_DFU_MANIFEST]
    ELSE c

\* the state transition of dfu_getstatus_handler
getstatus_transition(c) ==
    IF c.state = DFU_STATE_DFU_DNLOAD_SYNC
    THEN [c EXCEPT !.poll_timeout = IF c.block_num = CMD_SENTINEL THEN 2000 ELSE 10,
                   !.state = DFU_STATE_DFU_DNBUSY]
    ELSE IF c.state = DFU_STATE_DFU_DNBUSY
    THEN IF c.buffer_len = 0
         THEN IF c.status = DFU_STATUS_OK
              THEN [c EXCEPT !.state = DFU_STATE_DFU_DNLOAD_IDLE]
              ELSE [c EXCEPT !.state = DFU_STATE_DFU_ERROR]
         ELSE c
    ELSE IF c.state = DFU_STATE_DFU_MANIFEST_SYNC
    THEN [c EXCEPT !.state = DFU_STATE_DFU_MANIFEST, !.poll_timeout = 0]
    ELSE c

\* the 6-byte status_response built from a context
status_response(c) ==
    << c.status % 256,
       c.poll_timeout % 256,
       (c.poll_timeout \div 256) % 256,
       (c.poll_timeout \div 65536) % 256,
       c.state % 256,
       0 >>

\* a GETSTATUS handler that builds its reply before it changes the state
getstatus_replies_old_state(c) ==
    [ctx |-> getstatus_transition(c),
     ep0 |-> Ep0Send(status_response(c))]

dfu_getstatus_handler(c) ==
    [ctx |-> getstatus_transition(c),
     ep0 |-> Ep0Send(status_response(getstatus_transition(c)))]

\* a CLRSTATUS handler that also starts a new session
clrstatus_clears_erase(c) ==
    [ctx |-> IF c.state = DFU_STATE_DFU_ERROR
             THEN [c EXCEPT !.state = DFU_STATE_DFU_IDLE, !.status = DFU_STATUS_OK,
                            !.erase_done = FALSE]
             ELSE c,
     ep0 |-> Ep0Ack]

\* a CLRSTATUS handler that does not look at the state
clrstatus_in_any_state(c) ==
    [ctx |-> [c EXCEPT !.state = DFU_STATE_DFU_IDLE, !.status = DFU_STATUS_OK],
     ep0 |-> Ep0Ack]

dfu_clrstatus_handler(c) ==
    [ctx |-> IF c.state = DFU_STATE_DFU_ERROR
             THEN [c EXCEPT !.state = DFU_STATE_DFU_IDLE, !.status = DFU_STATUS_OK]
             ELSE c,
     ep0 |-> Ep0Ack]

\* a GETSTATE handler that replies with the status byte and goes back to IDLE
getstate_replies_status(c) ==
    [ctx |-> [c EXCEPT !.state = DFU_STATE_DFU_IDLE],
     ep0 |-> Ep0Send(<< c.status % 256 >>)]

dfu_getstate_handler(c) ==
    [ctx |-> c, ep0 |-> Ep0Send(<< c.state % 256 >>)]

dfu_abort_handler(c) ==
    [ctx |-> [c EXCEPT !.state = DFU_STATE_DFU_IDLE,
                       !.status = DFU_STATUS_OK,
                       !.block_num = 0,
                       !.current_address = APP_BASE,
                       !.target_address = APP_BASE,
                       !.erase_done = FALSE],
     ep0 |-> Ep0Ack]

\* the switch of dfu_request_hook on bRequest
dfu_request_switch(c, bRequest, wValue, wLength, data) ==
    CASE bRequest = DFU_REQ_DNLOAD -> dfu_dnload_handler(c, wValue, wLength, data)
      [] bRequest = DFU_REQ_GETSTATUS -> dfu_getstatus_handler(c)
      [] bRequest = DFU_REQ_CLRSTATUS -> dfu_clrstatus_handler(c)
      [] bRequest = DFU_REQ_GETSTATE -> dfu_getstate_handler(c)
      [] bRequest = DFU_REQ_ABORT -> dfu_abort_handler(c)
      [] bRequest = DFU_REQ_DETACH -> [ctx |-> c, ep0 |-> Ep0Ack]
      [] OTHER -> [ctx |-> c, ep0 |-> Ep0Unhandled]

RequestName(bRequest) ==
    CASE bRequest = DFU_REQ_DNLOAD -> "DNLOAD"
      [] bRequest = DFU_REQ_GETSTATUS -> "GETSTATUS"
      [] bRequest = DFU_REQ_CLRSTATUS -> "CLRSTATUS"
      [] bRequest = DFU_REQ_GETSTATE -> "GETSTATE"
      [] bRequest = DFU_REQ_ABORT -> "ABORT"
      [] bRequest = DFU_REQ_DETACH -> "DETACH"
      [] bRequest = DFU_REQ_UPLOAD -> "UPLOAD"

\* a request hook that restarts the timeout only for the requests it handles
request_hook_restarts_if_handled(bRequest, wValue, wLength, data) ==
    /\ usb_on
    /\ Interrupt
    /\ LET r == dfu_request_switch(dfu_ctx, bRequest, wValue, wLength, data)
       IN /\ dfu_ctx' = r.ctx
          /\ ep0' = [req |-> RequestName(bRequest), wValue |-> wValue,
                      wLength |-> wLength,
                      pending |-> IF bRequest = DFU_REQ_DNLOAD /\ r.ep0.dir = "out"
                                  THEN wValue ELSE ep0.pending,
                      polled |-> IF bRequest = DFU_REQ_DNLOAD /\ r.ep0.dir = "out"
                                 THEN FALSE
                                 ELSE IF bRequest = DFU_REQ_GETSTATUS THEN TRUE
                                 ELSE ep0.polled] @@ r.ep0
          /\ timeout_elapsed' = IF r.ep0.handled THEN 0 ELSE timeout_elapsed
    /\ UNCHANGED << pc, site, ram_magic, unit, button, flash, flash_locked, vid_pid,
                    usb_on, timeout_enabled, wl, exit_cause, accepted, flash_err >>

\* dfu_request_hook(usbp) for a class request: the timeout is restarted,
\* then the handler of bRequest runs
dfu_request_hook(bRequest, wValue, wLength, data) ==
    /\ usb_on
    /\ Interrupt
    /\ timeout_elapsed' = 0
    /\ LET r == dfu_request_switch(dfu_ctx, bRequest, wValue, wLength, data)
       IN /\ dfu_ctx' = r.ctx
          /\ ep0' = [req |-> RequestName(bRequest), wValue |-> wValue,
                      wLength |-> wLength,
                      pending |-> IF bRequest = DFU_REQ_DNLOAD /\ r.ep0.dir = "out"
                                  THEN wValue ELSE ep0.pending,
                      polled |-> IF bRequest = DFU_REQ_DNLOAD /\ r.ep0.dir = "out"
                                 THEN FALSE
                                 ELSE IF bRequest = DFU_REQ_GETSTATUS THEN TRUE
                                 ELSE ep0.polled] @@ r.ep0
    /\ UNCHANGED << pc, site, ram_magic, unit, button, flash, flash_locked, vid_pid,
                    usb_on, timeout_enabled, wl, exit_cause, accepted, flash_err >>

\* the host's requests: a DNLOAD of block 0 with one of the given payloads
DnloadCommand(payloads) ==
    \E data \in payloads :
        /\ dfu_request_hook(DFU_REQ_DNLOAD, 0, Len(data), data)
        /\ UNCHANGED ndata

\* a DNLOAD of a data block
DnloadData(nums, payloads) ==
    \E wValue \in nums, data \in payloads :
        /\ ndata < MaxData
        /\ ndata' = ndata + 1
        /\ dfu_request_hook(DFU_REQ_DNLOAD, wValue, Len(data), data)

\* a DNLOAD of one of several consecutive data blocks
DnloadBlock ==
    \E wValue \in 2..3, data \in BlockPayloads :
        /\ ndata < MaxBlocks
        /\ ndata' = ndata + 1
        /\ dfu_request_hook(DFU_REQ_DNLOAD, wValue, Len(data), data)

DnloadZero ==
    \E wValue \in ZeroLengthBlockNums :
        /\ dfu_request_hook(DFU_REQ_DNLOAD, wValue, 0, << >>)
        /\ UNCHANGED ndata

DnloadOversize ==
    \E wValue \in OversizeBlockNums, wLength \in OversizeLengths :
        /\ dfu_request_hook(DFU_REQ_DNLOAD, wValue, wLength, << >>)
        /\ UNCHANGED ndata

GetStatus == dfu_request_hook(DFU_REQ_GETSTATUS, 0, 6, << >>) /\ UNCHANGED ndata
ClrStatus == dfu_request_hook(DFU_REQ_CLRSTATUS, 0, 0, << >>) /\ UNCHANGED ndata
GetState == dfu_request_hook(DFU_REQ_GETSTATE, 0, 1, << >>) /\ UNCHANGED ndata
Abort == dfu_request_hook(DFU_REQ_ABORT, 0, 0, << >>) /\ UNCHANGED ndata
Detach == dfu_request_hook(DFU_REQ_DETACH, 0, 0, << >>) /\ UNCHANGED ndata
Upload == dfu_request_hook(DFU_REQ_UPLOAD, 0, 6, << >>) /\ UNCHANGED ndata

\* a bus reset handler that starts the DFU session afresh
reset_clears_session ==
    /\ usb_on
    /\ Interrupt
    /\ dfu_ctx' = [dfu_ctx EXCEPT !.state = DFU_STATE_DFU_IDLE,
                                  !.status = DFU_STATUS_OK,
                                  !.erase_done = FALSE,
                                  !.buffer_len = 0]
    /\ ep0' = [NoEp0 EXCEPT !.req = "USB_EVENT_RESET", !.pending = ep0.pending,
                            !.polled = ep0.polled]
    /\ UNCHANGED << pc, site, ram_magic, unit, button, flash, flash_locked, vid_pid,
                    usb_on, timeout_elapsed, timeout_enabled, wl, exit_cause,
                    accepted, flash_err, ndata >>

\* usb_event(usbp, USB_EVENT_RESET)
usb_event_reset ==
    /\ usb_on
    /\ Interrupt
    /\ dfu_ctx' = [dfu_ctx EXCEPT !.state = DFU_STATE_DFU_IDLE,
                                  !.status = DFU_STATUS_OK]
    /\ ep0' = [NoEp0 EXCEPT !.req = "USB_EVENT_RESET", !.pending = ep0.pending,
                            !.polled = ep0.polled]
    /\ UNCHANGED << pc, site, ram_magic, unit, button, flash, flash_locked, vid_pid,
                    usb_on, timeout_elapsed, timeout_enabled, wl, exit_cause,
                    accepted, flash_err, ndata >>


(***************************************************************************)
(* DFU worker: usb_dfu_process() (usb_dfu.c), run by the main thread.  One *)
(* action per group of accesses to the DFU context; USB callbacks may run  *)
(* between any two of them.                                                *)
(***************************************************************************)
WorkerFrame ==
    UNCHANGED << site, ram_magic, unit, button, vid_pid, usb_on, timeout_enabled,
                 ep0, exit_cause, ndata, npreempt >>

\* an error return that reports every failure as a stalled packet
fail_as_stalled_packet(code) ==
    /\ pc' = "w_err_status"
    /\ wl' = [wl EXCEPT !.err = DFU_STATUS_ERR_STALLEDPKT]

\* an error return: status is assigned first, state second
Fail(code) ==
    /\ pc' = "w_err_status"
    /\ wl' = [wl EXCEPT !.err = code]

\* the little-endian address of a 5-byte DFUSe command
CommandAddress(buffer) ==
    IntOfWord(Word32(buffer[2], buffer[3], buffer[4], buffer[5]))

\* line 526: the guard of usb_dfu_process, and the timeout restart
process_guard ==
    /\ pc = "loop"
    /\ Busy
    /\ pc' = "w_dispatch"
    /\ timeout_elapsed' = 0
    /\ WorkerFrame
    /\ UNCHANGED << dfu_ctx, flash, flash_locked, wl, accepted, flash_err >>

\* line 532: DFUSe command or data block
process_dispatch ==
    /\ pc = "w_dispatch"
    /\ pc' = IF dfu_ctx.block_num = CMD_SENTINEL THEN "w_command" ELSE "w_auto"
    /\ WorkerFrame
    /\ UNCHANGED << dfu_ctx, flash, flash_locked, wl, accepted, flash_err,
                    timeout_elapsed >>

\* a command parser that accepts the address of a Set Address command
\* without looking at the application region
set_address_unchecked ==
    /\ pc = "w_command"
    /\ LET cmd == dfu_ctx.buffer[1]
           addr == CommandAddress(dfu_ctx.buffer)
           outside == addr < APP_BASE \/ addr >= APP_BASE + APP_MAX_SIZE
       IN IF cmd = DFUSE_CMD_SET_ADDRESS
          THEN IF dfu_ctx.buffer_len = 5
               THEN /\ dfu_ctx' = [dfu_ctx EXCEPT !.target_address = addr]
                    /\ pc' = "w_set_address"
                    /\ UNCHANGED wl
               ELSE /\ Fail(DFU_STATUS_ERR_STALLEDPKT)
                    /\ UNCHANGED dfu_ctx
          ELSE IF cmd = DFUSE_CMD_ERASE
          THEN /\ UNCHANGED dfu_ctx
               /\ IF dfu_ctx.buffer_len = 5
                  THEN IF outside
                       THEN Fail(DFU_STATUS_ERR_ADDRESS)
                       ELSE pc' = "w_erase" /\ UNCHANGED wl
                  ELSE Fail(DFU_STATUS_ERR_STALLEDPKT)
          ELSE /\ Fail(DFU_STATUS_ERR_STALLEDPKT)
               /\ UNCHANGED dfu_ctx
    /\ WorkerFrame
    /\ UNCHANGED << flash, flash_locked, accepted, flash_err, timeout_elapsed >>

\* lines 533-615: the command byte, its length and its address
process_command ==
    /\ pc = "w_command"
    /\ LET cmd == dfu_ctx.buffer[1]
           addr == CommandAddress(dfu_ctx.buffer)
           outside == addr < APP_BASE \/ addr >= APP_BASE + APP_MAX_SIZE
       IN IF cmd = DFUSE_CMD_SET_ADDRESS
          THEN IF dfu_ctx.buffer_len = 5
               THEN /\ dfu_ctx' = [dfu_ctx EXCEPT !.target_address = addr]
                    /\ IF outside
                       THEN Fail(DFU_STATUS_ERR_ADDRESS)
                       ELSE pc' = "w_set_address" /\ UNCHANGED wl
               ELSE /\ Fail(DFU_STATUS_ERR_STALLEDPKT)
                    /\ UNCHANGED dfu_ctx
          ELSE IF cmd = DFUSE_CMD_ERASE
          THEN /\ UNCHANGED dfu_ctx
               /\ IF dfu_ctx.buffer_len = 5
                  THEN IF outside
                       THEN Fail(DFU_STATUS_ERR_ADDRESS)
                       ELSE pc' = "w_erase" /\ UNCHANGED wl
                  ELSE Fail(DFU_STATUS_ERR_STALLEDPKT)
          ELSE /\ Fail(DFU_STATUS_ERR_STALLEDPKT)
               /\ UNCHANGED dfu_ctx
    /\ WorkerFrame
    /\ UNCHANGED << flash, flash_locked, accepted, flash_err, timeout_elapsed >>

\* line 553: current_address = target_address
process_set_address ==
    /\ pc = "w_set_address"
    /\ dfu_ctx' = [dfu_ctx EXCEPT !.current_address = dfu_ctx.target_address]
    /\ pc' = "w_command_ok"
    /\ WorkerFrame
    /\ UNCHANGED << flash, flash_locked, wl, accepted, flash_err, timeout_elapsed >>

\* an erase whose failure path returns without flash_lock()
erase_failure_leaves_unlocked(next) ==
    \/ /\ flash_locked' = flash_locked
       /\ Fail(DFU_STATUS_ERR_PROG)
       /\ flash_err' = TRUE
       /\ UNCHANGED flash
    \/ \E done \in 0..1 :
          /\ flash' = flash_erase_pages(flash, APP_BASE, APP_MAX_SIZE, done)
          /\ flash_locked' = FALSE
          /\ Fail(DFU_STATUS_ERR_ERASE)
          /\ flash_err' = TRUE
    \/ /\ flash' = flash_erase_pages(flash, APP_BASE, APP_MAX_SIZE,
                                     ErasePages(APP_BASE, APP_MAX_SIZE).num)
       /\ flash_locked' = TRUE
       /\ pc' = next
       /\ UNCHANGED << wl, flash_err >>

\* flash_unlock(); flash_erase_pages(APP_BASE, APP_MAX_SIZE); flash_lock():
\* lines 580-598 and 627-640.  The flash controller may refuse the unlock or
\* end the erase loop early.
EraseRegion(next) ==
    \/ /\ flash_locked' = flash_locked
       /\ Fail(DFU_STATUS_ERR_PROG)
       /\ flash_err' = TRUE
       /\ UNCHANGED flash
    \/ \E done \in 0..1 :
          /\ flash' = flash_erase_pages(flash, APP_BASE, APP_MAX_SIZE, done)
          /\ flash_locked' = TRUE
          /\ Fail(DFU_STATUS_ERR_ERASE)
          /\ flash_err' = TRUE
    \/ /\ flash' = flash_erase_pages(flash, APP_BASE, APP_MAX_SIZE,
                                     ErasePages(APP_BASE, APP_MAX_SIZE).num)
       /\ flash_locked' = TRUE
       /\ pc' = next
       /\ UNCHANGED << wl, flash_err >>

process_erase ==
    /\ pc = "w_erase"
    /\ EraseRegion("w_erased")
    /\ WorkerFrame
    /\ UNCHANGED << dfu_ctx, accepted, timeout_elapsed >>

\* lines 600-601 and 641-643: erase_done = true; current_address = APP_BASE
EraseCommit(next) ==
    /\ dfu_ctx' = [dfu_ctx EXCEPT !.erase_done = TRUE, !.current_address = APP_BASE]
    /\ pc' = next
    /\ WorkerFrame
    /\ UNCHANGED << flash, flash_locked, wl, accepted, flash_err, timeout_elapsed >>

process_erased ==
    /\ pc = "w_erased"
    /\ EraseCommit("w_command_ok")

\* lines 554 and 602: status = OK after a command
process_command_ok ==
    /\ pc = "w_command_ok"
    /\ dfu_ctx' = [dfu_ctx EXCEPT !.status = DFU_STATUS_OK]
    /\ pc' = "w_command_clear"
    /\ WorkerFrame
    /\ UNCHANGED << flash, flash_locked, wl, accepted, flash_err, timeout_elapsed >>

\* line 618: buffer_len = 0 after a command
process_command_clear ==
    /\ pc = "w_command_clear"
    /\ dfu_ctx' = [dfu_ctx EXCEPT !.buffer_len = 0]
    /\ pc' = "tail"
    /\ wl' = NoLocals
    /\ WorkerFrame
    /\ UNCHANGED << flash, flash_locked, accepted, flash_err, timeout_elapsed >>

\* line 625: the auto-erase condition
\* an auto-erase condition that does not look at erase_done
auto_erase_every_block_two ==
    /\ pc = "w_auto"
    /\ pc' = IF dfu_ctx.block_num = 2 THEN "w_auto_erase" ELSE "w_address"
    /\ WorkerFrame
    /\ UNCHANGED << dfu_ctx, flash, flash_locked, wl, accepted, flash_err,
                    timeout_elapsed >>

process_auto ==
    /\ pc = "w_auto"
    /\ pc' = IF ~dfu_ctx.erase_done /\ dfu_ctx.block_num = 2
             THEN "w_auto_erase" ELSE "w_address"
    /\ WorkerFrame
    /\ UNCHANGED << dfu_ctx, flash, flash_locked, wl, accepted, flash_err,
                    timeout_elapsed >>

process_auto_erase ==
    /\ pc = "w_auto_erase"
    /\ EraseRegion("w_auto_erased")
    /\ WorkerFrame
    /\ UNCHANGED << dfu_ctx, accepted, timeout_elapsed >>

process_auto_erased ==
    /\ pc = "w_auto_erased"
    /\ EraseCommit("w_address")

\* lines 647-661: write_addr = current_address, the region check and the
\* length check
process_address ==
    /\ pc = "w_address"
    /\ IF ~flash_is_app_region(WordOfInt(dfu_ctx.current_address),
                               WordOfInt(dfu_ctx.buffer_len))
       THEN Fail(DFU_STATUS_ERR_ADDRESS)
       ELSE IF dfu_ctx.buffer_len = 0 \/ dfu_ctx.buffer_len > DFU_XFER_SIZE
       THEN Fail(DFU_STATUS_ERR_STALLEDPKT)
       ELSE /\ pc' = "w_write"
            /\ wl' = [wl EXCEPT !.write_addr = dfu_ctx.current_address]
    /\ WorkerFrame
    /\ UNCHANGED << dfu_ctx, flash, flash_locked, accepted, flash_err,
                    timeout_elapsed >>

\* lines 664-679: flash_unlock(); flash_write(write_addr, buffer, buffer_len);
\* flash_lock().  buffer and buffer_len are read when flash_write is called.
\* A store to an address that is no multiple of 4 is a HardFault.  The flash
\* controller may refuse the unlock or fail the first double-word; the loop
\* fails at the first double-word that cannot be programmed.
process_write ==
    /\ pc = "w_write"
    /\ LET len == dfu_ctx.buffer_len
           data == SubSeq(dfu_ctx.buffer, 1, len)
           blocked == flash_write_blocked(flash, wl.write_addr, data, len)
           first == CHOOSE k \in blocked : \A j \in blocked : k <= j
       IN IF wl.write_addr % 4 # 0
          THEN /\ pc' = "fault"
               /\ flash_locked' = FALSE
               /\ UNCHANGED << flash, wl, accepted, flash_err >>
          ELSE \/ /\ flash_locked' = flash_locked
                  /\ Fail(DFU_STATUS_ERR_PROG)
                  /\ flash_err' = TRUE
                  /\ UNCHANGED << flash, accepted >>
               \/ /\ flash' = flash_write(flash, wl.write_addr, data, len,
                                          IF blocked = {} THEN 0 ELSE first)
                  /\ flash_locked' = TRUE
                  /\ Fail(DFU_STATUS_ERR_WRITE)
                  /\ flash_err' = TRUE
                  /\ UNCHANGED accepted
               \/ /\ len > 0
                  /\ blocked = {}
                  /\ flash' = flash_write(flash, wl.write_addr, data, len,
                                          DoubleWords(len))
                  /\ flash_locked' = TRUE
                  /\ accepted' = accepted \o data
                  /\ pc' = "w_advance"
                  /\ UNCHANGED << wl, flash_err >>
    /\ WorkerFrame
    /\ UNCHANGED << dfu_ctx, timeout_elapsed >>

\* an advance by the size of the transfer buffer instead of the block length
advance_by_transfer_size ==
    /\ pc = "w_advance"
    /\ dfu_ctx' = [dfu_ctx EXCEPT
                      !.current_address = dfu_ctx.current_address + DFU_XFER_SIZE]
    /\ pc' = "w_data_clear"
    /\ WorkerFrame
    /\ UNCHANGED << flash, flash_locked, wl, accepted, flash_err, timeout_elapsed >>

\* line 682: current_address += buffer_len
process_advance ==
    /\ pc = "w_advance"
    /\ dfu_ctx' = [dfu_ctx EXCEPT
                      !.current_address = dfu_ctx.current_address
                                              + dfu_ctx.buffer_len]
    /\ pc' = "w_data_clear"
    /\ WorkerFrame
    /\ UNCHANGED << flash, flash_locked, wl, accepted, flash_err, timeout_elapsed >>

\* line 685: buffer_len = 0 after a data block
process_data_clear ==
    /\ pc = "w_data_clear"
    /\ dfu_ctx' = [dfu_ctx EXCEPT !.buffer_len = 0]
    /\ pc' = "w_data_ok"
    /\ WorkerFrame
    /\ UNCHANGED << flash, flash_locked, wl, accepted, flash_err, timeout_elapsed >>

\* line 686: status = OK after a data block
process_data_ok ==
    /\ pc = "w_data_ok"
    /\ dfu_ctx' = [dfu_ctx EXCEPT !.status = DFU_STATUS_OK]
    /\ pc' = "tail"
    /\ wl' = NoLocals
    /\ WorkerFrame
    /\ UNCHANGED << flash, flash_locked, accepted, flash_err, timeout_elapsed >>

\* an error return, first assignment: dfu_ctx.status = <error status>
process_error_status ==
    /\ pc = "w_err_status"
    /\ dfu_ctx' = [dfu_ctx EXCEPT !.status = wl.err]
    /\ pc' = "w_err_state"
    /\ WorkerFrame
    /\ UNCHANGED << flash, flash_locked, wl, accepted, flash_err, timeout_elapsed >>

\* an error return, second assignment: dfu_ctx.state = DFU_STATE_DFU_ERROR
process_error_state ==
    /\ pc = "w_err_state"
    /\ dfu_ctx' = [dfu_ctx EXCEPT !.state = DFU_STATE_DFU_ERROR]
    /\ pc' = "tail"
    /\ wl' = NoLocals
    /\ WorkerFrame
    /\ UNCHANGED << flash, flash_locked, accepted, flash_err, timeout_elapsed >>

usb_dfu_process ==
    \/ process_guard
    \/ process_dispatch
    \/ process_command
    \/ process_set_address
    \/ process_erase
    \/ process_erased
    \/ process_command_ok
    \/ process_command_clear
    \/ process_auto
    \/ process_auto_erase
    \/ process_auto_erased
    \/ process_address
    \/ process_write
    \/ process_advance
    \/ process_data_clear
    \/ process_data_ok
    \/ process_error_status
    \/ process_error_state

\* the USB callbacks a host can cause
UsbCallback(commands, nums, payloads) ==
    \/ DnloadCommand(commands)
    \/ DnloadData(nums, payloads)
    \/ DnloadZero
    \/ DnloadOversize
    \/ GetStatus
    \/ ClrStatus
    \/ GetState
    \/ Abort
    \/ Detach
    \/ Upload
    \/ usb_event_reset

\* one power cycle in DFU mode, up to the reset that ends it: the host sends
\* its requests while the main thread sleeps in its loop
Next ==
    \/ main("HIGH")
    \/ usb_dfu_process
    \/ bootloader_run
    \/ (pc = "loop" /\ UsbCallback(CommandPayloads, DataBlockNums, DataPayloads))

Spec == Init /\ [][Next]_vars

\* one power cycle in DFU mode in which time passes between the host's
\* requests
NextTimed ==
    \/ main("HIGH")
    \/ usb_dfu_process
    \/ bootloader_run
    \/ Tick
    \/ (pc = "loop" /\ UsbCallback(TimedCommandPayloads, TimedBlockNums, DataPayloads))

SpecTimed == Init /\ [][NextTimed]_vars

\* one power cycle in DFU mode in which the USB callbacks interrupt the main
\* thread anywhere
NextIsr ==
    \/ main("HIGH")
    \/ usb_dfu_process
    \/ bootloader_run
    \/ DnloadCommand(IsrCommandPayloads)
    \/ DnloadData({2}, DataPayloads)
    \/ DnloadZero
    \/ GetStatus
    \/ ClrStatus
    \/ Abort
    \/ usb_event_reset

SpecIsr == Init /\ [][NextIsr]_vars

\* one power cycle in DFU mode in which the host sends its image in several
\* data blocks
NextBlocks ==
    \/ main("HIGH")
    \/ usb_dfu_process
    \/ bootloader_run
    \/ (pc = "loop" /\ \/ DnloadCommand(BlockCommandPayloads)
                       \/ DnloadBlock
                       \/ GetStatus
                       \/ Abort)

SpecBlocks == Init /\ [][NextBlocks]_vars

\* one power cycle in DFU mode with a host that, once a DNLOAD is accepted,
\* polls GETSTATUS and sends nothing else until the state has left
\* DNLOAD_SYNC and DNBUSY
NextPoll ==
    \/ main("HIGH")
    \/ usb_dfu_process
    \/ bootloader_run
    \/ (pc = "loop" /\ GetStatus)
    \/ (/\ pc = "loop"
        /\ dfu_ctx.state # DFU_STATE_DFU_DNLOAD_SYNC
        /\ dfu_ctx.state # DFU_STATE_DFU_DNBUSY
        /\ \/ DnloadCommand(BlockCommandPayloads)
           \/ DnloadBlock
           \/ ClrStatus)

\* the same with a main thread that keeps running its loop (the call of
\* usb_dfu_process is carried on, the rest of the iteration follows it) and
\* a host that keeps polling
FairPoll ==
    /\ Init /\ [][NextPoll]_vars
    /\ WF_vars(usb_dfu_process)
    /\ WF_vars(pc = "tail" /\ bootloader_run)
    /\ WF_vars(pc = "loop" /\ GetStatus)

\* power cycles from any power-on: the button is at either level, time
\* passes, and the host downloads the new application
NextBoot ==
    \/ main("LOW")
    \/ main("HIGH")
    \/ usb_dfu_process
    \/ bootloader_run
    \/ reset_vector
    \/ Tick
    \/ (pc = "loop" /\ \/ DnloadCommand(BootCommandPayloads)
                       \/ DnloadData({2}, BootDataPayloads)
                       \/ DnloadZero
                       \/ GetStatus)

SpecBoot == InitBoot /\ [][NextBoot]_vars

\* the same power cycles with a main thread that keeps running: a call of
\* usb_dfu_process that has work to do is carried on, and the loop iteration
\* that finds download_complete set is executed
FairBoot ==
    /\ SpecBoot
    /\ WF_vars(usb_dfu_process)
    /\ WF_vars(dfu_ctx.download_complete /\ bootloader_run)

\* bootloader_run is about to run an iteration that finds the timeout expired
RunDue ==
    /\ pc = "tail" \/ (pc = "loop" /\ ~Busy)
    /\ bootloader_timeout_expired

\* the same power cycles with a main thread that keeps running and a system
\* that boots: the loop iteration that finds the timeout expired is executed,
\* the reset vector is taken and main() runs.  The two weak-fairness
\* conditions on bootloader_run and on main are written out, with the
\* conditions under which these actions are enabled: RunDue and pc = "boot".
FairTimeout ==
    /\ SpecBoot
    /\ WF_vars(usb_dfu_process)
    /\ ([]<>(~RunDue) \/ []<><<bootloader_run>>_vars)
    /\ WF_vars(reset_vector)
    /\ ([]<>(pc # "boot") \/ []<><<main("LOW") \/ main("HIGH")>>_vars)

(***************************************************************************)
(* Direct calls of the library functions (flash_ops.c, crc32.c), outside   *)
(* the boot flow: `unit` holds the arguments of the call, how far it has   *)
(* got and what it returned; `flash` is the flash it works on.             *)
(***************************************************************************)
\* the calls that are made: flash_is_app_region(addr, len) on 32-bit words
\* around the bounds of the region and of the word; flash_write(addr, data,
\* len) on erased and on programmed flash, unlocked by its caller, with the
\* first 0..17 bytes of 1, 2, ... and with bytes 0x00 and 0xFF; the CRC32 of
\* byte sequences, the table still in its zero-initialised static storage
InitUnit ==
    /\ pc = "unit"
    /\ site = 0
    /\ ram_magic = WordOfInt(0)
    /\ button = "HIGH"
    /\ dfu_ctx = ZeroCtx
    /\ vid_pid = DefaultVidPid
    /\ usb_on = FALSE
    /\ timeout_elapsed = 0
    /\ timeout_enabled = FALSE
    /\ wl = NoLocals
    /\ ep0 = NoEp0
    /\ exit_cause = "none"
    /\ accepted = << >>
    /\ flash_err = FALSE
    /\ ndata = 0
    /\ npreempt = 0
    /\ \/ /\ flash = ErasedImage
          /\ flash_locked = TRUE
          /\ unit \in [fn : {"flash_is_app_region"},
                       addr : {WordOfInt(a) : a \in {0, APP_BASE - 1, APP_BASE,
                                                     APP_BASE + 8, FLASH_END - 8,
                                                     FLASH_END - 1, FLASH_END,
                                                     FLASH_END + 1}}
                                 \cup {WORD_MAX},
                       len : {WordOfInt(n) : n \in {0, 1, 7, 8, 9, DFU_XFER_SIZE,
                                                    APP_MAX_SIZE, APP_MAX_SIZE + 1}}
                                \cup {<< 32768, 0 >>, << 65535, 65528 >>, WORD_MAX},
                       ret : {"none"}]
       \/ /\ flash \in {ErasedImage, OldImage}
          /\ flash_locked = FALSE
          /\ unit \in [fn : {"flash_write"},
                       addr : {APP_BASE, APP_BASE + 4, APP_BASE + 2048,
                               FLASH_END - 8},
                       data : {[k \in 1..n |-> k] : n \in 0..17}
                                 \cup {<< 0, 255, 0 >>, << 255, 255, 255, 255, 9 >>},
                       erased : {flash = ErasedImage},
                       i : {0},
                       ops : {<< >>},
                       ret : {"none"}]
       \/ /\ flash = ErasedImage
          /\ flash_locked = TRUE
          /\ unit \in [fn : {"crc32"},
                       s : {<< >>, << 0 >>, << 255 >>, OldBody, NewBody,
                            << 49, 50, 51, 52, 53, 54, 55, 56, 57 >>},
                       table_initialized : {FALSE},
                       table : {[i \in 0..255 |-> WordOfInt(0)]},
                       pos : {0},
                       chunks : {0},
                       crc : {WordOfInt(0)},
                       ret : {<< >>}]

\* bool flash_is_app_region(uint32_t addr, size_t len)
call_flash_is_app_region ==
    /\ pc = "unit"
    /\ unit.fn = "flash_is_app_region"
    /\ unit.ret = "none"
    /\ unit' = [unit EXCEPT !.ret = IF flash_is_app_region(unit.addr, unit.len)
                                    THEN "true" ELSE "false"]
    /\ UNCHANGED flash
    /\ UNCHANGED << pc, site, ram_magic, button, flash_locked, dfu_ctx, vid_pid,
                    usb_on, timeout_elapsed, timeout_enabled, wl, ep0, exit_cause,
                    accepted, flash_err, ndata, npreempt >>

\* int flash_write(uint32_t addr, const uint8_t *data, size_t len): the
\* parameter check, then one iteration of the loop per step.  An iteration
\* programs the double-word at addr + i, or returns the error of
\* flash_write_doubleword (which the flash controller can always report)
call_flash_write ==
    /\ pc = "unit"
    /\ unit.fn = "flash_write"
    /\ unit.ret = "none"
    /\ LET len == Len(unit.data)
           k == unit.i \div 8
       IN IF len = 0
          THEN /\ unit' = [unit EXCEPT !.ret = "ERR_INVALID_PARAM"]
               /\ UNCHANGED flash
          ELSE IF unit.i >= len
          THEN /\ unit' = [unit EXCEPT !.ret = "ERR_SUCCESS"]
               /\ UNCHANGED flash
          ELSE \/ /\ flash_write_doubleword(flash, unit.addr + unit.i,
                                             DoubleWordBytes(unit.data, k, len))
                  /\ flash' = flash_write(flash, unit.addr, unit.data, len, k + 1)
                  /\ unit' = [unit EXCEPT !.i = unit.i + 8,
                                          !.ops = Append(unit.ops, unit.addr + unit.i)]
               \/ /\ unit' = [unit EXCEPT !.ret = "ERR_FLASH_WRITE"]
                  /\ UNCHANGED flash
    /\ UNCHANGED << pc, site, ram_magic, button, flash_locked, dfu_ctx, vid_pid,
                    usb_on, timeout_elapsed, timeout_enabled, wl, ep0, exit_cause,
                    accepted, flash_err, ndata, npreempt >>

\* uint32_t crc32_init(void): crc32_init_table(), then 0xFFFFFFFF.  A
\* calculation may be started again at any time
call_crc32_init ==
    /\ pc = "unit"
    /\ unit.fn = "crc32"
    /\ unit.ret = << >>
    /\ unit' = [unit EXCEPT
                   !.table = IF unit.table_initialized THEN unit.table
                             ELSE crc32_table,
                   !.table_initialized = TRUE,
                   !.pos = 0,
                   !.chunks = 0,
                   !.crc = crc32_init]
    /\ UNCHANGED flash
    /\ UNCHANGED << pc, site, ram_magic, button, flash_locked, dfu_ctx, vid_pid,
                    usb_on, timeout_elapsed, timeout_enabled, wl, ep0, exit_cause,
                    accepted, flash_err, ndata, npreempt >>

\* uint32_t crc32_update(crc, data, len) with the next n bytes of s, after
\* crc32_init has filled the table
call_crc32_update ==
    /\ pc = "unit"
    /\ unit.fn = "crc32"
    /\ unit.ret = << >>
    /\ unit.table_initialized
    /\ unit.table = crc32_table
    /\ \E n \in 0..(Len(unit.s) - unit.pos) :
          unit' = [unit EXCEPT
                      !.crc = crc32_update(unit.crc,
                                           SubSeq(unit.s, unit.pos + 1, unit.pos + n)),
                      !.pos = unit.pos + n,
                      !.chunks = IF n = 0 THEN unit.chunks ELSE unit.chunks + 1]
    /\ UNCHANGED flash
    /\ UNCHANGED << pc, site, ram_magic, button, flash_locked, dfu_ctx, vid_pid,
                    usb_on, timeout_elapsed, timeout_enabled, wl, ep0, exit_cause,
                    accepted, flash_err, ndata, npreempt >>

\* uint32_t crc32_finalize(uint32_t crc), when all of s has been fed
call_crc32_finalize ==
    /\ pc = "unit"
    /\ unit.fn = "crc32"
    /\ unit.ret = << >>
    /\ unit.table_initialized
    /\ unit.pos = Len(unit.s)
    /\ unit' = [unit EXCEPT !.ret = crc32_finalize(unit.crc)]
    /\ UNCHANGED flash
    /\ UNCHANGED << pc, site, ram_magic, button, flash_locked, dfu_ctx, vid_pid,
                    usb_on, timeout_elapsed, timeout_enabled, wl, ep0, exit_cause,
                    accepted, flash_err, ndata, npreempt >>

NextUnit ==
    \/ call_flash_is_app_region
    \/ call_flash_write
    \/ call_crc32_init
    \/ call_crc32_update
    \/ call_crc32_finalize

SpecUnit == InitUnit /\ [][NextUnit]_vars

(***************************************************************************)
(* What the specification says of an application image, stated without    *)
(* the code: the magic number, the size range and a bit-by-bit CRC-32 of   *)
(* `size` bytes from APP_BASE + 0x100 on.                                  *)
(***************************************************************************)
RECURSIVE CrcBits(_, _)
CrcBits(crc, n) ==
    IF crc = << >> \/ n = 0 THEN crc
    ELSE CrcBits(IF crc[2] % 2 = 1 THEN Xor32(Shr1(crc), << 60856, 33568 >>)
                 ELSE Shr1(crc), n - 1)

RECURSIVE CrcBytes(_, _, _)
CrcBytes(crc, data, i) ==
    IF crc = << >> \/ i > Len(data) THEN crc
    ELSE CrcBytes(CrcBits(Xor32(crc, << 0, data[i] >>), 8), data, i + 1)

Crc32Bitwise(data) == Xor32(CrcBytes(<< 65535, 65535 >>, data, 1), << 65535, 65535 >>)

AppValid(f) ==
    /\ ReadWord(f, APP_BASE) = << 57005, 48879 >>
    /\ ReadWord(f, APP_BASE + 8) # << 0, 0 >>
    /\ Le32(ReadWord(f, APP_BASE + 8), WordOfInt(APP_MAX_SIZE))
    /\ Crc32Bitwise(ReadBytes(f, APP_BASE + 256, IntOfWord(ReadWord(f, APP_BASE + 8))))
          = ReadWord(f, APP_BASE + 12)

\* the image f without what the verdict must not depend on: only magic, size,
\* crc32 and the `size` bytes of the body are kept
Essential(f) ==
    LET size == ReadWord(f, APP_BASE + 8)
        kept(a) == \/ a \in APP_BASE..(APP_BASE + 3)
                   \/ a \in (APP_BASE + 8)..(APP_BASE + 15)
                   \/ /\ a >= APP_BASE + 256
                      /\ Lt32(WordOfInt(a - (APP_BASE + 256)), size)
    IN [a \in {x \in DOMAIN f : kept(x)} |-> f[a]]

\* a step of a USB callback: the main thread stays where it is
CallbackStep == pc' = pc /\ usb_on /\ usb_on'

(***************************************************************************)
(* Claims                                                                  *)
(***************************************************************************)
\* C1: whenever a session whose flash operations have all succeeded has
\* reached download_complete, flash holds the accepted data blocks in receive
\* order from APP_BASE on, and every other byte of the application region
\* reads 0xFF.
C1_FlashIsAcceptedBlocks ==
    (usb_on /\ dfu_ctx.download_complete /\ ~flash_err) =>
        /\ \A i \in 1..Len(accepted) : ReadByte(flash, APP_BASE + i - 1) = accepted[i]
        /\ \A a \in DOMAIN flash :
              (a >= APP_BASE /\ a < APP_BASE + APP_MAX_SIZE)
                  => a < APP_BASE + Len(accepted)

\* C2: main() passes control to the application only when the image is
\* valid, and with an invalid image it ends in the DFU main loop with USB
\* DFU initialised.
C2_JumpOnlyWhenValid ==
    [][pc = "boot" =>
          /\ pc' = "app" => AppValid(flash)
          /\ ~AppValid(flash) =>
                /\ pc' = "loop"
                /\ usb_on'
                /\ dfu_ctx'.state = DFU_STATE_DFU_IDLE]_vars

C2_Jumped == pc = "app" /\ flash = OldImage

\* C3: a request received in ERROR changes the state only if it is
\* CLRSTATUS.
C3_OnlyClrStatusLeavesError ==
    [][(/\ CallbackStep
        /\ ep0'.req # "USB_EVENT_RESET"
        /\ dfu_ctx.state = DFU_STATE_DFU_ERROR
        /\ dfu_ctx'.state # DFU_STATE_DFU_ERROR)
          => ep0'.req = "CLRSTATUS"]_vars

\* C4: in a DFU session current_address stays within
\* [APP_BASE, APP_BASE + APP_MAX_SIZE].
C4_CurrentAddressInRegion ==
    usb_on =>
        /\ APP_BASE <= dfu_ctx.current_address
        /\ dfu_ctx.current_address <= APP_BASE + APP_MAX_SIZE

C6_EraseDoneSticky ==
    [][(dfu_ctx.erase_done /\ ~dfu_ctx'.erase_done)
          => \/ CallbackStep /\ ep0'.req = "ABORT"
             \/ pc' = "reset"]_vars

C6_RequestAfterErase ==
    /\ dfu_ctx.erase_done
    /\ ep0.req = "CLRSTATUS"
    /\ dfu_ctx.state = DFU_STATE_DFU_IDLE

\* C7: main() enters DFU mode on the verdict of bootloader_should_enter()
\* exactly when the RAM word is the magic, the image is invalid or the
\* button reads low.
C7_EnterIffMagicInvalidOrButton ==
    [][pc = "boot" =>
          ((pc' = "loop" /\ site' = 1)
              <=> \/ ram_magic = << 57005, 48879 >>
                  \/ ~AppValid(flash)
                  \/ button' = "LOW")]_vars

C7_EnteredByButton ==
    /\ pc = "loop"
    /\ site = 1
    /\ button = "LOW"
    /\ AppValid(flash)
    /\ exit_cause # "none"

\* C8: once bootloader_should_enter() has returned the RAM word is not the
\* magic; and a boot that follows a reset from DFU mode, with a valid image
\* and the button released, jumps to the application.
C8_MagicOneShot ==
    /\ []((pc = "boot" /\ exit_cause = "none") \/ ram_magic # << 57005, 48879 >>)
    /\ [][(pc = "boot" /\ exit_cause # "none" /\ AppValid(flash) /\ button' = "HIGH")
             => pc' = "app"]_vars

C8_EnteredByMagic ==
    /\ pc = "loop"
    /\ exit_cause = "none"
    /\ button = "HIGH"
    /\ AppValid(flash)
    /\ ram_magic = << 0, 0 >>

C10_CompleteLeadsToReset ==
    /\ (dfu_ctx.download_complete ~> pc = "reset")
    /\ [](pc # "halt")

C10_ResetAfterDownload == pc = "reset" /\ exit_cause = "download"

\* C11: bootloader_run() returns only when download_complete is true, or when
\* the timeout has expired and the image is valid; an iteration that finds
\* the timeout expired and the image invalid (and no download complete)
\* restarts the timeout and stays in the loop.
C11_RunReturnsOnlyWhenDue ==
    [][/\ ((pc = "loop" \/ pc = "tail") /\ (pc' = "reset" \/ pc' = "halt"))
            => \/ dfu_ctx.download_complete /\ exit_cause' = "download"
               \/ /\ timeout_enabled
                  /\ timeout_elapsed >= TimeoutTicks
                  /\ AppValid(flash)
                  /\ exit_cause' = "timeout"
       /\ (/\ bootloader_run
           /\ ~dfu_ctx.download_complete
           /\ timeout_enabled
           /\ timeout_elapsed >= TimeoutTicks
           /\ ~AppValid(flash))
            => /\ pc' = "loop"
               /\ timeout_elapsed' = 0
               /\ timeout_enabled'
               /\ dfu_ctx' = dfu_ctx]_vars

C11_ReturnedOnTimeout ==
    /\ pc = "reset"
    /\ exit_cause = "timeout"
    /\ AppValid(flash)
    /\ ~dfu_ctx.download_complete

\* C12: when the bootloader sits in its DFU loop with a valid image, the
\* magic word clear, no buffer waiting for the worker and the timeout run out
\* (no request and no worker activity for BOOTLOADER_TIMEOUT_MS), control
\* reaches the application,
\* unless a request arrives first or the button is held at the reboot.
C12_TimeoutLeadsToApp ==
    (/\ pc = "loop"
     /\ timeout_enabled
     /\ timeout_elapsed >= TimeoutTicks
     /\ ~(dfu_ctx.state = DFU_STATE_DFU_DNBUSY /\ dfu_ctx.buffer_len > 0)
     /\ AppValid(flash)
     /\ ram_magic # << 57005, 48879 >>)
        ~> \/ pc = "app"
           \/ /\ pc = "loop"
              /\ timeout_elapsed = 0
              /\ (ep0.req # "none" \/ button = "LOW")

C12_AppAfterTimeout ==
    /\ pc = "app"
    /\ exit_cause = "timeout"
    /\ button = "HIGH"
    /\ flash = OldImage

\* C13: every DFU class request, handled or not, restarts the timeout, and so
\* does every call of usb_dfu_process that finds DNBUSY with a buffer; a loop
\* iteration whose usb_dfu_process call finds nothing to do leaves the
\* timeout as it is (unless the iteration itself finds it expired);
\* bootloader_timeout_expired() is false while the timeout is disabled and
\* otherwise true exactly when the elapsed time is at least
\* BOOTLOADER_TIMEOUT_MS.
C13_TimeoutRestarts ==
    /\ [][/\ (/\ CallbackStep
              /\ ep0' # ep0
              /\ ep0'.req # "USB_EVENT_RESET")
               => timeout_elapsed' = 0
          /\ (pc = "loop" /\ pc' = "w_dispatch")
               => /\ dfu_ctx.state = DFU_STATE_DFU_DNBUSY
                  /\ dfu_ctx.buffer_len > 0
                  /\ timeout_elapsed' = 0
          /\ (/\ pc = "loop"
              /\ dfu_ctx.state = DFU_STATE_DFU_DNBUSY
              /\ dfu_ctx.buffer_len > 0
              /\ pc' # "loop")
               => pc' = "w_dispatch"
          /\ (/\ bootloader_run
              /\ pc = "loop"
              /\ pc' = "loop"
              /\ timeout_elapsed * TickMs < BOOTLOADER_TIMEOUT_MS)
               => timeout_elapsed' = timeout_elapsed]_vars
    /\ [](bootloader_timeout_expired
            <=> (timeout_enabled /\ timeout_elapsed * TickMs >= BOOTLOADER_TIMEOUT_MS))

C13_RejectedRequestRestarted ==
    /\ pc = "loop"
    /\ timeout_enabled
    /\ ep0.req = "UPLOAD"
    /\ ~ep0.handled
    /\ timeout_elapsed = 0
    /\ dfu_ctx.state = DFU_STATE_DFU_ERROR

\* a step of the request hook for a DNLOAD
DnloadStep ==
    /\ CallbackStep
    /\ ep0'.req = "DNLOAD"
    /\ (ep0' # ep0 \/ dfu_ctx' # dfu_ctx)

\* C14: a DNLOAD is rejected exactly when the state is neither IDLE nor
\* DNLOAD_IDLE or wLength exceeds DFU_XFER_SIZE; a rejected DNLOAD sets
\* status errSTALLEDPKT and state ERROR, stalls endpoint 0, arms no data
\* phase and changes no other field of the DFU context; in particular a
\* zero-length DNLOAD in a wrong state is rejected and completes nothing.
C14_DnloadRejectedExactlyWhen ==
    [][DnloadStep =>
          LET wrong == /\ dfu_ctx.state # DFU_STATE_DFU_IDLE
                       /\ dfu_ctx.state # DFU_STATE_DFU_DNLOAD_IDLE
              rejected == wrong \/ ep0'.wLength > 1024
          IN /\ rejected <=> ep0'.stall
             /\ rejected =>
                   /\ dfu_ctx' = [dfu_ctx EXCEPT !.status = DFU_STATUS_ERR_STALLEDPKT,
                                                 !.state = DFU_STATE_DFU_ERROR]
                   /\ ep0'.dir = "none"
                   /\ ep0'.len = 0
             /\ ~rejected =>
                   /\ dfu_ctx'.state # DFU_STATE_DFU_ERROR
                   /\ dfu_ctx'.status = dfu_ctx.status]_vars

C14_ZeroLengthRejected ==
    /\ ep0.req = "DNLOAD"
    /\ ep0.wLength = 0
    /\ ep0.stall
    /\ dfu_ctx.state = DFU_STATE_DFU_ERROR
    /\ dfu_ctx.status = DFU_STATUS_ERR_STALLEDPKT
    /\ ~dfu_ctx.download_complete
    /\ dfu_ctx.buffer_len > 0

\* C15: download_complete goes from false to true only in the step of a
\* DNLOAD with wLength = 0 received in IDLE or DNLOAD_IDLE, and every such
\* DNLOAD, whatever its wValue, sets it; that step sets the state to
\* MANIFEST_SYNC and changes nothing else in the DFU context and nothing in
\* flash.
C15_CompleteOnlyByZeroLengthDnload ==
    [][LET ready == \/ dfu_ctx.state = DFU_STATE_DFU_IDLE
                    \/ dfu_ctx.state = DFU_STATE_DFU_DNLOAD_IDLE
       IN /\ (~dfu_ctx.download_complete /\ dfu_ctx'.download_complete)
               => (DnloadStep /\ ep0'.wLength = 0 /\ ready)
          /\ (DnloadStep /\ ep0'.wLength = 0 /\ ready)
               => /\ dfu_ctx' = [dfu_ctx EXCEPT !.state = DFU_STATE_DFU_MANIFEST_SYNC,
                                                !.download_complete = TRUE]
                  /\ flash' = flash
                  /\ ~ep0'.stall
                  /\ ep0'.len = 0]_vars

C15_CompletedAfterBlock ==
    /\ dfu_ctx.download_complete
    /\ dfu_ctx.state = DFU_STATE_DFU_MANIFEST_SYNC
    /\ ep0.req = "DNLOAD"
    /\ ep0.wValue = 5
    /\ ep0.wLength = 0
    /\ accepted = NewBody

\* C16: a DNLOAD received in IDLE or DNLOAD_IDLE with 1 <= wLength <= 1024
\* sets buffer_len to wLength and the state to DNLOAD_SYNC; the worker
\* treats the pending transfer as a DFUSe command if and only if its wValue
\* was 0, and treats every other one as a data block with block_num equal
\* to its wValue.
C16_CommandIffBlockZero ==
    [][/\ (/\ DnloadStep
           /\ (dfu_ctx.state = DFU_STATE_DFU_IDLE
                  \/ dfu_ctx.state = DFU_STATE_DFU_DNLOAD_IDLE)
           /\ ep0'.wLength >= 1
           /\ ep0'.wLength <= 1024)
             => /\ dfu_ctx'.buffer_len = ep0'.wLength
                /\ dfu_ctx'.state = DFU_STATE_DFU_DNLOAD_SYNC
                /\ ep0'.pending = ep0'.wValue
       /\ (pc = "w_dispatch" /\ pc' # "w_dispatch")
             => /\ pc' = "w_command" <=> ep0.pending = 0
                /\ pc' = "w_auto" => dfu_ctx.block_num = ep0.pending]_vars

\* a step of the request hook for a GETSTATUS
GetStatusStep ==
    /\ CallbackStep
    /\ ep0'.req = "GETSTATUS"
    /\ (ep0' # ep0 \/ dfu_ctx' # dfu_ctx)

\* C17: GETSTATUS received in DNLOAD_SYNC moves the state to DNBUSY and sets
\* poll_timeout to 2000 for a DFUSe command and to 10 for a data block; the
\* worker starts on a buffer only when state is DNBUSY and buffer_len > 0;
\* and flash is neither erased nor written for a transfer before the host
\* has sent a GETSTATUS after that transfer.
C17_NoFlashBeforeGetStatus ==
    [][/\ (GetStatusStep /\ dfu_ctx.state = DFU_STATE_DFU_DNLOAD_SYNC)
             => /\ dfu_ctx'.state = DFU_STATE_DFU_DNBUSY
                /\ dfu_ctx'.poll_timeout =
                      IF dfu_ctx.block_num = 65535 THEN 2000 ELSE 10
       /\ (pc = "loop" /\ pc' = "w_dispatch")
             => /\ dfu_ctx.state = DFU_STATE_DFU_DNBUSY
                /\ dfu_ctx.buffer_len > 0
       /\ (usb_on /\ flash' # flash) => ep0.polled]_vars

\* C18: every GETSTATUS reply is the six bytes status, poll_timeout (three
\* bytes, least significant first), state, 0, taken from the DFU context as
\* the same GETSTATUS leaves it: received in DNLOAD_SYNC it reports DNBUSY
\* with the poll timeout chosen by block_num (2000 for the sentinel 0xFFFF,
\* 10 otherwise), and received in MANIFEST_SYNC it reports MANIFEST.
C18_StatusReplyAfterTransition ==
    [][GetStatusStep =>
          /\ ep0'.handled
          /\ ~ep0'.stall
          /\ ep0'.dir = "in"
          /\ ep0'.len = 6
          /\ Len(ep0'.data) = 6
          /\ ep0'.data[1] = dfu_ctx'.status
          /\ ep0'.data[2] + 256 * ep0'.data[3] + 65536 * ep0'.data[4]
                = dfu_ctx'.poll_timeout
          /\ \A i \in 2..4 : ep0'.data[i] \in 0..255
          /\ ep0'.data[5] = dfu_ctx'.state
          /\ ep0'.data[6] = 0
          /\ dfu_ctx.state = DFU_STATE_DFU_DNLOAD_SYNC
                => /\ ep0'.data[5] = DFU_STATE_DFU_DNBUSY
                   /\ dfu_ctx'.poll_timeout =
                         IF dfu_ctx.block_num = 65535 THEN 2000 ELSE 10
          /\ dfu_ctx.state = DFU_STATE_DFU_MANIFEST_SYNC
                => ep0'.data[5] = DFU_STATE_DFU_MANIFEST]_vars

C18_BusyReplyForCommand ==
    /\ ep0.req = "GETSTATUS"
    /\ ep0.data = << 0, 208, 7, 0, 4, 0 >>
    /\ ep0.pending = 0
    /\ dfu_ctx.buffer_len > 0

\* a step of the request hook for a CLRSTATUS
ClrStatusStep ==
    /\ CallbackStep
    /\ ep0'.req = "CLRSTATUS"
    /\ (ep0' # ep0 \/ dfu_ctx' # dfu_ctx)

\* C19: CLRSTATUS is acknowledged with a zero-length status stage in every
\* state; received in ERROR it sets state IDLE and status OK, received in any
\* other state it changes no field of the DFU context.
C19_ClrStatusOnlyFromError ==
    [][ClrStatusStep =>
          /\ ep0'.handled
          /\ ~ep0'.stall
          /\ ep0'.len = 0
          /\ dfu_ctx.state = DFU_STATE_DFU_ERROR
                => dfu_ctx' = [dfu_ctx EXCEPT !.state = DFU_STATE_DFU_IDLE,
                                              !.status = DFU_STATUS_OK]
          /\ dfu_ctx.state # DFU_STATE_DFU_ERROR => dfu_ctx' = dfu_ctx
          /\ flash' = flash]_vars

C19_ClrStatusWhileBusy ==
    /\ ep0.req = "CLRSTATUS"
    /\ ep0.handled
    /\ dfu_ctx.state = DFU_STATE_DFU_DNBUSY
    /\ dfu_ctx.buffer_len > 0
    /\ dfu_ctx.erase_done

\* the session values ABORT leaves in a DFU context
AbortValues(c) ==
    /\ c.state = DFU_STATE_DFU_IDLE
    /\ c.status = DFU_STATUS_OK
    /\ c.block_num = 0
    /\ c.current_address = APP_BASE
    /\ c.target_address = APP_BASE
    /\ c.erase_done = FALSE

\* C20: ABORT, in whatever state it is received, leaves state IDLE, status
\* OK, block_num 0, current_address and target_address at APP_BASE and
\* erase_done false, and the context still has these values when the next
\* USB callback runs.
C20_AbortResetsSession ==
    [][/\ (CallbackStep /\ ep0'.req = "ABORT") => AbortValues(dfu_ctx')
       /\ (CallbackStep /\ ep0.req = "ABORT") => AbortValues(dfu_ctx)]_vars

\* C21: GETSTATE, DETACH and UPLOAD change no field of the DFU context in any
\* state; GETSTATE is answered with one byte, the current state; DETACH is
\* acknowledged with a zero-length data phase; UPLOAD is not acknowledged:
\* the request hook returns false and starts no transfer.
C21_QueriesChangeNothing ==
    [][/\ (CallbackStep /\ ep0'.req = "GETSTATE"
               /\ (ep0' # ep0 \/ dfu_ctx' # dfu_ctx))
             => /\ dfu_ctx' = dfu_ctx
                /\ ep0'.handled /\ ~ep0'.stall
                /\ ep0'.dir = "in" /\ ep0'.len = 1
                /\ ep0'.data = << dfu_ctx.state >>
       /\ (CallbackStep /\ ep0'.req = "DETACH"
               /\ (ep0' # ep0 \/ dfu_ctx' # dfu_ctx))
             => /\ dfu_ctx' = dfu_ctx
                /\ ep0'.handled /\ ~ep0'.stall
                /\ ep0'.dir = "none" /\ ep0'.len = 0
       /\ (CallbackStep /\ ep0'.req = "UPLOAD"
               /\ (ep0' # ep0 \/ dfu_ctx' # dfu_ctx))
             => /\ dfu_ctx' = dfu_ctx
                /\ ~ep0'.handled /\ ~ep0'.stall
                /\ ep0'.dir = "none" /\ ep0'.len = 0]_vars

C21_StateReadWhileBusy ==
    /\ ep0.req = "GETSTATE"
    /\ ep0.data = << DFU_STATE_DFU_DNBUSY >>
    /\ dfu_ctx.state = DFU_STATE_DFU_DNBUSY
    /\ dfu_ctx.buffer_len > 0

\* C22: when the worker processes a DFUSe Set Address command (first byte
\* 0x21, length 5) it performs no flash operation; it returns with
\* current_address = target_address = the little-endian address of the
\* command, buffer_len = 0 and status OK if that address lies in
\* [APP_BASE, APP_BASE + APP_MAX_SIZE), and with status ERR_ADDRESS and
\* state ERROR, current_address never having changed, if it lies outside.
C22_SetAddressChecked ==
    [][(/\ pc \in {"w_command", "w_set_address", "w_command_ok",
                   "w_command_clear", "w_err_status", "w_err_state"}
        /\ dfu_ctx.block_num = CMD_SENTINEL
        /\ Len(dfu_ctx.buffer) = 5
        /\ dfu_ctx.buffer[1] = DFUSE_CMD_SET_ADDRESS)
          => LET address == CommandAddress(dfu_ctx.buffer)
                 inside == address >= APP_BASE /\ address < APP_BASE + APP_MAX_SIZE
             IN /\ flash' = flash
                /\ flash_locked' = flash_locked
                /\ ~inside => dfu_ctx'.current_address = dfu_ctx.current_address
                /\ (pc' = "tail" /\ inside)
                      => /\ dfu_ctx'.current_address = address
                         /\ dfu_ctx'.target_address = address
                         /\ dfu_ctx'.buffer_len = 0
                         /\ dfu_ctx'.status = DFU_STATUS_OK
                         /\ dfu_ctx'.state = DFU_STATE_DFU_DNBUSY
                /\ (pc' = "tail" /\ ~inside)
                      => /\ dfu_ctx'.status = DFU_STATUS_ERR_ADDRESS
                         /\ dfu_ctx'.state = DFU_STATE_DFU_ERROR]_vars

C22_BootRegionRefused ==
    /\ pc = "tail"
    /\ dfu_ctx.buffer = SetAddressPayload(BOOT_REGION_ADDR)
    /\ dfu_ctx.block_num = CMD_SENTINEL
    /\ dfu_ctx.status = DFU_STATUS_ERR_ADDRESS
    /\ dfu_ctx.state = DFU_STATE_DFU_ERROR
    /\ dfu_ctx.current_address = FLASH_END - 8

\* C23: when the worker processes a DFUSe Erase command (first byte 0x41,
\* length 5) whose address lies in [APP_BASE, APP_BASE + APP_MAX_SIZE), the
\* erase empties the whole application region, whatever the address, and
\* leaves the rest of flash as it was, and the worker returns with
\* erase_done true, current_address = APP_BASE, buffer_len = 0 and status
\* OK; when the address lies outside, flash is neither unlocked nor erased
\* and the worker returns with status ERR_ADDRESS and state ERROR.
C23_EraseWholeRegion ==
    [][(/\ pc \in {"w_command", "w_erase", "w_erased", "w_command_ok",
                   "w_command_clear", "w_err_status", "w_err_state"}
        /\ dfu_ctx.block_num = CMD_SENTINEL
        /\ Len(dfu_ctx.buffer) = 5
        /\ dfu_ctx.buffer[1] = DFUSE_CMD_ERASE)
          => LET address == CommandAddress(dfu_ctx.buffer)
                 inside == address >= APP_BASE /\ address < APP_BASE + APP_MAX_SIZE
                 region == APP_BASE..(APP_BASE + APP_MAX_SIZE - 1)
             IN /\ ~inside
                      => /\ flash' = flash
                         /\ flash_locked' = flash_locked
                         /\ dfu_ctx'.erase_done = dfu_ctx.erase_done
                         /\ pc' = "tail"
                               => /\ dfu_ctx'.status = DFU_STATUS_ERR_ADDRESS
                                  /\ dfu_ctx'.state = DFU_STATE_DFU_ERROR
                /\ (inside /\ pc = "w_erase" /\ pc' = "w_erased")
                      => /\ flash' = [a \in (DOMAIN flash) \ region |-> flash[a]]
                         /\ flash_locked'
                /\ (inside /\ pc = "w_command_clear" /\ pc' = "tail")
                      => /\ (DOMAIN flash') \cap region = {}
                         /\ dfu_ctx'.erase_done
                         /\ dfu_ctx'.current_address = APP_BASE
                         /\ dfu_ctx'.buffer_len = 0
                         /\ dfu_ctx'.status = DFU_STATUS_OK]_vars

C23_ErasedFromSecondPage ==
    /\ pc = "tail"
    /\ dfu_ctx.buffer = ErasePayload(APP_BASE + FLASH_PAGE_SIZE)
    /\ dfu_ctx.block_num = CMD_SENTINEL
    /\ dfu_ctx.buffer_len = 0
    /\ dfu_ctx.erase_done
    /\ dfu_ctx.target_address = FLASH_END - 8
    /\ dfu_ctx.current_address = APP_BASE
    /\ flash = ErasedImage

\* C24: the worker erases for a data block exactly when block_num is 2 and
\* erase_done is false; that erase empties the whole application region and
\* is followed by erase_done = true and current_address = APP_BASE before
\* the block is written, at current_address; while erase_done is true the
\* processing of a data block removes no byte from flash, and each block
\* written moves current_address to the end of what it wrote.
C24_AutoEraseOnce ==
    [][LET region == APP_BASE..(APP_BASE + APP_MAX_SIZE - 1)
           len == dfu_ctx.buffer_len
       IN /\ pc = "w_auto"
                => (pc' = "w_auto_erase"
                       <=> (~dfu_ctx.erase_done /\ dfu_ctx.block_num = 2))
          /\ (pc = "w_auto_erase" /\ pc' = "w_auto_erased")
                => /\ flash' = [a \in (DOMAIN flash) \ region |-> flash[a]]
                   /\ flash_locked'
          /\ pc = "w_auto_erased"
                => /\ pc' = "w_address"
                   /\ dfu_ctx'.erase_done
                   /\ dfu_ctx'.current_address = APP_BASE
                   /\ flash' = flash
          /\ (pc = "w_address" /\ pc' = "w_write")
                => wl'.write_addr = dfu_ctx.current_address
          /\ (pc = "w_write" /\ pc' = "w_advance")
                => /\ ReadBytes(flash', wl.write_addr, len)
                         = SubSeq(dfu_ctx.buffer, 1, len)
                   /\ \A a \in DOMAIN flash' :
                         a \in DOMAIN flash
                            \/ a \in wl.write_addr..(wl.write_addr + len - 1)
          /\ pc = "w_advance"
                => dfu_ctx'.current_address = wl.write_addr + len
          /\ (/\ dfu_ctx.erase_done
              /\ dfu_ctx.block_num # CMD_SENTINEL
              /\ pc \in {"w_dispatch", "w_auto", "w_address", "w_write",
                          "w_advance", "w_data_clear", "w_data_ok",
                          "w_err_status", "w_err_state"})
                => /\ pc' # "w_auto_erase"
                   /\ DOMAIN flash \subseteq DOMAIN flash']_vars

C24_ErasedForBlockTwo ==
    /\ pc = "w_auto_erased"
    /\ dfu_ctx.block_num = 2
    /\ ~dfu_ctx.erase_done
    /\ dfu_ctx.current_address = APP_BASE + 8
    /\ flash = ErasedImage
    /\ ndata = 1

\* C25 as stated: every failure inside the worker ends in state ERROR with
\* the status of what failed: ERR_STALLEDPKT for an unknown command byte or a
\* command whose length is not 5, ERR_ADDRESS for a command address or a
\* write address outside the application region, ERR_PROG or ERR_ERASE when
\* the unlock or the erase of an erase fails, ERR_WRITE for every failure of
\* the unlock-write-lock step of a data block; and a GETSTATUS received in
\* ERROR replies with that status and state ERROR and changes nothing.
C25_WriteStepFailsWithErrWrite ==
    [][/\ (pc' = "w_err_status" /\ pc # "w_err_status")
             => LET cmd == dfu_ctx.buffer[1]
                    address == CommandAddress(dfu_ctx.buffer)
                    outside == address < APP_BASE
                                  \/ address >= APP_BASE + APP_MAX_SIZE
                    err == wl'.err
                IN /\ pc \in {"w_command", "w_erase", "w_auto_erase",
                               "w_address", "w_write"}
                   /\ pc = "w_command"
                         => IF cmd # DFUSE_CMD_SET_ADDRESS /\ cmd # DFUSE_CMD_ERASE
                            THEN err = DFU_STATUS_ERR_STALLEDPKT
                            ELSE IF dfu_ctx.buffer_len # 5
                            THEN err = DFU_STATUS_ERR_STALLEDPKT
                            ELSE err = DFU_STATUS_ERR_ADDRESS /\ outside
                   /\ pc \in {"w_erase", "w_auto_erase"}
                         => /\ err \in {DFU_STATUS_ERR_PROG, DFU_STATUS_ERR_ERASE}
                            /\ flash' # flash => err = DFU_STATUS_ERR_ERASE
                   /\ pc = "w_address"
                         => /\ err = DFU_STATUS_ERR_ADDRESS
                            /\ \/ dfu_ctx.current_address < APP_BASE
                               \/ dfu_ctx.current_address + dfu_ctx.buffer_len
                                     > FLASH_END
                   /\ pc = "w_write" => err = DFU_STATUS_ERR_WRITE
       /\ (pc = "w_err_state" /\ pc' = "tail")
             => /\ dfu_ctx'.state = DFU_STATE_DFU_ERROR
                /\ dfu_ctx'.status = wl.err
                /\ dfu_ctx'.status # DFU_STATUS_OK
       /\ (GetStatusStep /\ dfu_ctx.state = DFU_STATE_DFU_ERROR)
             => /\ dfu_ctx' = dfu_ctx
                /\ ep0'.data[1] = dfu_ctx.status
                /\ ep0'.data[5] = DFU_STATE_DFU_ERROR]_vars

\* C25, amended: the same, except that the unlock-write-lock step of a data
\* block fails with ERR_PROG when its unlock is refused and with ERR_WRITE
\* when the write fails (only then has flash changed).
C25_FailureStatusReported ==
    [][/\ (pc' = "w_err_status" /\ pc # "w_err_status")
             => LET cmd == dfu_ctx.buffer[1]
                    address == CommandAddress(dfu_ctx.buffer)
                    outside == address < APP_BASE
                                  \/ address >= APP_BASE + APP_MAX_SIZE
                    err == wl'.err
                IN /\ pc \in {"w_command", "w_erase", "w_auto_erase",
                               "w_address", "w_write"}
                   /\ pc = "w_command"
                         => IF cmd # DFUSE_CMD_SET_ADDRESS /\ cmd # DFUSE_CMD_ERASE
                            THEN err = DFU_STATUS_ERR_STALLEDPKT
                            ELSE IF dfu_ctx.buffer_len # 5
                            THEN err = DFU_STATUS_ERR_STALLEDPKT
                            ELSE err = DFU_STATUS_ERR_ADDRESS /\ outside
                   /\ pc \in {"w_erase", "w_auto_erase"}
                         => /\ err \in {DFU_STATUS_ERR_PROG, DFU_STATUS_ERR_ERASE}
                            /\ flash' # flash => err = DFU_STATUS_ERR_ERASE
                   /\ pc = "w_address"
                         => /\ err = DFU_STATUS_ERR_ADDRESS
                            /\ \/ dfu_ctx.current_address < APP_BASE
                               \/ dfu_ctx.current_address + dfu_ctx.buffer_len
                                     > FLASH_END
                   /\ pc = "w_write" => /\ err \in {DFU_STATUS_ERR_PROG,
                                                     DFU_STATUS_ERR_WRITE}
                                         /\ flash' # flash
                                               => err = DFU_STATUS_ERR_WRITE
       /\ (pc = "w_err_state" /\ pc' = "tail")
             => /\ dfu_ctx'.state = DFU_STATE_DFU_ERROR
                /\ dfu_ctx'.status = wl.err
                /\ dfu_ctx'.status # DFU_STATUS_OK
       /\ (GetStatusStep /\ dfu_ctx.state = DFU_STATE_DFU_ERROR)
             => /\ dfu_ctx' = dfu_ctx
                /\ ep0'.data[1] = dfu_ctx.status
                /\ ep0'.data[5] = DFU_STATE_DFU_ERROR]_vars

C25_UnlockRefusedBeforeWrite ==
    /\ ep0.req = "GETSTATUS"
    /\ ep0.data = << DFU_STATUS_ERR_PROG, 10, 0, 0, DFU_STATE_DFU_ERROR, 0 >>
    /\ dfu_ctx.block_num = 2
    /\ dfu_ctx.erase_done
    /\ dfu_ctx.buffer_len > 0
    /\ dfu_ctx.state = DFU_STATE_DFU_ERROR

\* C26: flash_is_app_region(addr, len) returns true exactly when
\* APP_BASE <= addr and addr + len <= FLASH_END, the sum taken in the
\* integers (hi and lo are its two halves, hi not reduced modulo 2^16), for
\* all 32-bit addr and len.
C26_AppRegionIsMathematical ==
    (pc = "unit" /\ unit.fn = "flash_is_app_region" /\ unit.ret # "none")
        => LET lo == unit.addr[2] + unit.len[2]
               hi == unit.addr[1] + unit.len[1] + lo \div 65536
           IN unit.ret = "true"
                 <=> /\ Le32(WordOfInt(APP_BASE), unit.addr)
                     /\ Le32(<< hi, lo % 65536 >>, WordOfInt(FLASH_END))

C28_Crc32IsReflectedIeee ==
    /\ [](pc = "unit" /\ unit.fn = "crc32"
            => /\ unit.table_initialized
                    => unit.table = [i \in 0..255 |-> CrcBits(WordOfInt(i), 8)]
               /\ unit.ret # << >>
                    => /\ unit.ret = Crc32Bitwise(unit.s)
                       /\ crc32_calculate(unit.s) = unit.ret
                       /\ unit.s = << >> => unit.ret = << 0, 0 >>
                       /\ unit.s = << 49, 50, 51, 52, 53, 54, 55, 56, 57 >>
                            => unit.ret = << 52212, 14630 >>)
    /\ [][pc = "unit" /\ unit.fn = "crc32" /\ unit.table_initialized
            => unit'.table = unit.table]_vars

C28_CheckValueFromThreeChunks ==
    /\ pc = "unit"
    /\ unit.fn = "crc32"
    /\ unit.s = << 49, 50, 51, 52, 53, 54, 55, 56, 57 >>
    /\ unit.chunks = 3
    /\ unit.ret = << 52212, 14630 >>

\* C29: usb_dfu_init leaves in bytes 8-11 of the device descriptor
\* the header's usb_vid/usb_pid (little-endian) when the application is
\* validated (magic, size and CRC), and 0x0483/0xDF11 in every other case.
C29_VidPidFromValidatedApp ==
    [][pc = "boot" /\ pc' = "loop"
        => vid_pid' = IF bootloader_validate_app(flash)
                      THEN LE16(header_usb_vid(flash)) \o LE16(header_usb_pid(flash))
                      ELSE LE16(USB_DEFAULT_VID) \o LE16(USB_DEFAULT_PID)]_vars

\* C30: the receive buffer is never held by both contexts.  While
\* usb_dfu_process is between its entry test and its return (the main thread
\* is at one of the worker's steps), no callback that preempts it arms a
\* DNLOAD data phase into dfu_ctx.buffer or sets buffer_len; and while the
\* USB driver runs, buffer_len goes from non-zero to zero only in the
\* worker's two clearing steps.
C30_BufferNeverShared ==
    [][/\ (/\ pc # "boot" /\ pc # "loop" /\ pc # "tail" /\ pc # "app"
            /\ pc # "halt" /\ pc # "reset" /\ pc # "fault" /\ pc # "unit"
            /\ pc' = pc
            /\ npreempt' # npreempt)
               => /\ ~(ep0'.req = "DNLOAD" /\ ep0'.dir = "out")
                  /\ dfu_ctx'.buffer = dfu_ctx.buffer
                  /\ dfu_ctx'.buffer_len = dfu_ctx.buffer_len
       /\ (usb_on /\ usb_on' /\ dfu_ctx.buffer_len # 0 /\ dfu_ctx'.buffer_len = 0)
               => pc = "w_command_clear" \/ pc = "w_data_clear"]_vars

\* C31: flash lock discipline.  The flash controller is locked whenever the
\* main thread is outside usb_dfu_process (in the loop of bootloader_run,
\* before or after the call), whatever path the call took; a step that
\* changes flash is the worker's erase or write step, starts from a locked
\* controller and leaves it locked; and a step of a USB callback changes
\* neither the flash contents nor the lock.
C31_FlashLockDiscipline ==
    /\ [](pc = "loop" \/ pc = "tail" => flash_locked)
    /\ [][/\ flash' # flash
              => /\ pc = "w_erase" \/ pc = "w_auto_erase" \/ pc = "w_write"
                 /\ flash_locked
                 /\ flash_locked'
          /\ (usb_on /\ pc' = pc)
              => flash' = flash /\ flash_locked' = flash_locked]_vars

C31_LockedAfterFailedErase ==
    /\ pc = "tail"
    /\ dfu_ctx.status = DFU_STATUS_ERR_ERASE
    /\ dfu_ctx.state = DFU_STATE_DFU_ERROR
    /\ flash_err
    /\ flash_locked

\* C32 amended: a regular data block is written at the current_address the
\* worker reads after its auto-erase test: the address held when processing
\* starts, or APP_BASE when the auto-erase ran (block_num == 2 and erase_done
\* false).  It is written only if [current_address, current_address +
\* buffer_len) lies in [APP_BASE, FLASH_END); otherwise the worker reports
\* ERR_ADDRESS and flash is untouched.  On success current_address increases
\* by buffer_len, buffer_len becomes 0 and status OK.  current_address
\* changes in no other way than by this advance, a Set Address command, an
\* Erase command, an auto-erase, ABORT, and the start-up or reset of the
\* bootloader; so data blocks with none of these in between occupy
\* consecutive address ranges in receive order.
C32_SequentialFromAddressRead ==
    [][LET cur == dfu_ctx.current_address
           len == dfu_ctx.buffer_len
           inside == APP_BASE <= cur /\ cur < FLASH_END /\ cur + len <= FLASH_END
       IN /\ (pc = "w_auto" \/ pc = "w_address") => dfu_ctx'.current_address = cur
          /\ pc = "w_address"
                => IF inside
                   THEN len \in 1..DFU_XFER_SIZE
                            => pc' = "w_write" /\ wl'.write_addr = cur
                   ELSE /\ pc' = "w_err_status"
                        /\ wl'.err = DFU_STATUS_ERR_ADDRESS
                        /\ flash' = flash
          /\ (pc = "w_err_status" /\ wl.err = DFU_STATUS_ERR_ADDRESS)
                => /\ dfu_ctx'.status = DFU_STATUS_ERR_ADDRESS
                   /\ pc' = "w_err_state"
                   /\ flash' = flash
          /\ pc = "w_err_state"
                => dfu_ctx'.state = DFU_STATE_DFU_ERROR /\ flash' = flash
          /\ pc = "w_write"
                => /\ wl.write_addr = cur
                   /\ inside
                   /\ \A a \in (DOMAIN flash \cup DOMAIN flash') :
                         ReadByte(flash', a) # ReadByte(flash, a)
                            => a \in cur..(cur + len - 1)
                   /\ pc' = "w_advance"
                         => ReadBytes(flash', cur, len) = SubSeq(dfu_ctx.buffer, 1, len)
          /\ pc = "w_advance"
                => /\ dfu_ctx'.current_address = cur + len
                   /\ pc' = "w_data_clear"
          /\ pc = "w_data_clear"
                => dfu_ctx'.buffer_len = 0 /\ pc' = "w_data_ok"
          /\ pc = "w_data_ok"
                => dfu_ctx'.status = DFU_STATUS_OK /\ pc' = "tail"
          /\ dfu_ctx'.current_address # cur
                => \/ pc = "w_advance"
                   \/ pc = "w_set_address"
                   \/ pc = "w_erased"
                   \/ pc = "w_auto_erased"
                   \/ pc' = pc /\ ep0'.req = "ABORT"
                   \/ pc = "boot"
                   \/ pc' = "reset"]_vars

\* C32: as above, with the block written at exactly the current_address held
\* when processing starts: no step of the worker between its entry and the
\* write changes current_address, and between two data blocks only a Set
\* Address command, an Erase command or ABORT moves it.
C32_SequentialFromAddressAtStart ==
    /\ C32_SequentialFromAddressRead
    /\ [][(/\ dfu_ctx.block_num # CMD_SENTINEL
            /\ \/ pc = "w_dispatch" \/ pc = "w_auto" \/ pc = "w_auto_erase"
               \/ pc = "w_auto_erased" \/ pc = "w_address" \/ pc = "w_write")
               => dfu_ctx'.current_address = dfu_ctx.current_address]_vars

C32_TwoBlocksConsecutive ==
    /\ pc = "tail"
    /\ ndata = 2
    /\ dfu_ctx.status = DFU_STATUS_OK
    /\ dfu_ctx.buffer_len = 0
    /\ dfu_ctx.current_address = APP_BASE + 16
    /\ ReadBytes(flash, APP_BASE, 16) = NewBody \o NewBody
    /\ accepted = NewBody \o NewBody

\* C33: a GETSTATUS received in MANIFEST_SYNC sets state = MANIFEST and
\* poll_timeout = 0 and changes no other field of the DFU context; a
\* GETSTATUS received in IDLE, DNLOAD_IDLE, MANIFEST or ERROR, or in DNBUSY
\* while buffer_len > 0, changes no field of the DFU context.
C33_GetStatusManifestAndFrame ==
    [][(pc' = pc /\ usb_on /\ ep0'.req = "GETSTATUS")
          => /\ dfu_ctx.state = DFU_STATE_DFU_MANIFEST_SYNC
                   => dfu_ctx' = [dfu_ctx EXCEPT !.state = DFU_STATE_DFU_MANIFEST,
                                                 !.poll_timeout = 0]
             /\ (\/ dfu_ctx.state = DFU_STATE_DFU_IDLE
                 \/ dfu_ctx.state = DFU_STATE_DFU_DNLOAD_IDLE
                 \/ dfu_ctx.state = DFU_STATE_DFU_MANIFEST
                 \/ dfu_ctx.state = DFU_STATE_DFU_ERROR
                 \/ (dfu_ctx.state = DFU_STATE_DFU_DNBUSY /\ dfu_ctx.buffer_len > 0))
                   => dfu_ctx' = dfu_ctx]_vars

C33_ManifestAfterCommand ==
    /\ pc = "loop"
    /\ ep0.req = "GETSTATUS"
    /\ ep0.data = << DFU_STATUS_OK, 0, 0, 0, DFU_STATE_DFU_MANIFEST, 0 >>
    /\ dfu_ctx.state = DFU_STATE_DFU_MANIFEST
    /\ dfu_ctx.poll_timeout = 0
    /\ dfu_ctx.download_complete
    /\ dfu_ctx.block_num = CMD_SENTINEL

\* C34: no worker step erases or programs a flash byte outside
\* [APP_BASE, FLASH_END): a step changes no byte of flash outside that range,
\* and when the worker calls flash_write (the unlock has succeeded), every
\* double-word the call programs, padding included, lies in that range.
C34_WorkerStaysInAppRegion ==
    [][/\ \A a \in (DOMAIN flash \cup DOMAIN flash') :
             ReadByte(flash', a) # ReadByte(flash, a)
                => APP_BASE <= a /\ a < FLASH_END
       /\ (/\ pc = "w_write"
           /\ ~(pc' = "w_err_status" /\ wl'.err = DFU_STATUS_ERR_PROG))
              => /\ APP_BASE <= wl.write_addr
                 /\ wl.write_addr + 8 * DoubleWords(dfu_ctx.buffer_len) <= FLASH_END]_vars

\* C35: whenever state == ERROR, status != OK, in every reachable state,
\* USB callbacks preempting the worker between its assignments included.
C35_ErrorStateHasErrorStatus ==
    dfu_ctx.state = DFU_STATE_DFU_ERROR => dfu_ctx.status # DFU_STATUS_OK

\* C36: the worker programs a data block only after the application region
\* has been erased in the same session: erase_done is true whenever the
\* worker calls flash_write (the unlock has succeeded), whatever number the
\* block carries.
C36_WriteOnlyAfterErase ==
    [][(/\ pc = "w_write"
        /\ ~(pc' = "w_err_status" /\ wl'.err = DFU_STATUS_ERR_PROG))
           => dfu_ctx.erase_done]_vars

\* C37: every flash_write the worker issues (the unlock has succeeded)
\* starts at an address that is a multiple of 8, and that address is
\* current_address.
C37_WritesAreDoubleWordAligned ==
    [][(/\ pc = "w_write"
        /\ ~(pc' = "w_err_status" /\ wl'.err = DFU_STATUS_ERR_PROG))
           => /\ wl.write_addr = dfu_ctx.current_address
              /\ wl.write_addr % 8 = 0]_vars

\* C38: buffer_len never exceeds DFU_XFER_SIZE, the size of the receive
\* buffer, and a DNLOAD data phase is armed for at most DFU_XFER_SIZE bytes
\* and for exactly buffer_len bytes as the handler has set it, whatever
\* wLength the host sends and in whatever state.
C38_BufferLenWithinBuffer ==
    /\ dfu_ctx.buffer_len <= DFU_XFER_SIZE
    /\ Len(dfu_ctx.buffer) <= DFU_XFER_SIZE
    /\ (ep0.req = "DNLOAD" /\ ep0.dir = "out")
          => ep0.len <= DFU_XFER_SIZE /\ ep0.len = ep0.wLength

C38_OversizeRefused ==
    /\ pc = "loop"
    /\ ep0.req = "DNLOAD"
    /\ ep0.wLength = DFU_XFER_SIZE + 1
    /\ ep0.stall
    /\ ep0.dir = "none"
    /\ dfu_ctx.state = DFU_STATE_DFU_ERROR
    /\ dfu_ctx.status = DFU_STATUS_ERR_STALLEDPKT
    /\ dfu_ctx.buffer_len = 0
    /\ dfu_ctx.erase_done

\* C39: after an accepted DNLOAD (state DNLOAD_SYNC), with a host that polls
\* GETSTATUS and sends nothing else and a main loop that keeps calling
\* usb_dfu_process, the state eventually becomes DNLOAD_IDLE or ERROR.
C39_DnloadSyncLeadsToIdleOrError ==
    (dfu_ctx.state = DFU_STATE_DFU_DNLOAD_SYNC)
        ~> (\/ dfu_ctx.state = DFU_STATE_DFU_DNLOAD_IDLE
            \/ dfu_ctx.state = DFU_STATE_DFU_ERROR)

\* C40: a USB bus reset event sets state IDLE and status OK and changes
\* nothing else of the DFU context (current_address, target_address,
\* erase_done, block_num, buffer_len, buffer, poll_timeout and
\* download_complete keep their values), nor the flash, its lock or the
\* bootloader's timeout, at whatever point of the worker the reset arrives.
C40_BusResetSetsIdleOnly ==
    [][(pc' = pc /\ usb_on /\ usb_on' /\ ep0'.req = "USB_EVENT_RESET")
           => /\ dfu_ctx' = [dfu_ctx EXCEPT !.state = DFU_STATE_DFU_IDLE,
                                            !.status = DFU_STATUS_OK]
              /\ flash' = flash
              /\ flash_locked' = flash_locked
              /\ timeout_elapsed' = timeout_elapsed
              /\ timeout_enabled' = timeout_enabled
              /\ wl' = wl]_vars

\* a bus reset arrived while the worker was processing a data block that
\* followed an erase: the session is IDLE with its block still buffered
C40_ResetDuringDataBlock ==
    /\ ep0.req = "USB_EVENT_RESET"
    /\ pc = "w_write"
    /\ dfu_ctx.state = DFU_STATE_DFU_IDLE
    /\ dfu_ctx.status = DFU_STATUS_OK
    /\ dfu_ctx.erase_done
    /\ dfu_ctx.buffer_len > 0
    /\ dfu_ctx.block_num = 2

=============================================================================
